---- MODULE Spec2Model ----
(***************************************************************************)
(* Model of opencitations/crowdsourcing.                                   *)
(*                                                                         *)
(*  - ArchiveManager (crowdsourcing/archive_manager.py): the index of      *)
(*    validation reports, split in github_reports (hot) and zenodo_reports *)
(*    (cold), with the threshold-triggered migration archive_reports.      *)
(*  - The GitHub API readers get_open_issues, get_user_id                  *)
(*    (crowdsourcing/process_issues.py) and get_closed_issues              *)
(*    (crowdsourcing/meta_runner.py): bounded retry loops.                 *)
(*  - _validate_title and validate (crowdsourcing/process_issues.py): the  *)
(*    checks of an issue's title and body, and the registration of the     *)
(*    validation report with the ArchiveManager.                           *)
(*  - answer and process_open_issues (crowdsourcing/process_issues.py):    *)
(*    the run over the open issues, its writes to the issue tracker and    *)
(*    the deposit of the collected data.                                   *)
(*  - store_meta_input (crowdsourcing/meta_runner.py): the records of the  *)
(*    issues written in files of 1000.                                     *)
(*  - Two processes calling ArchiveManager.add_report on one index file.   *)
(*  - check_and_archive_reports (crowdsourcing/archive_reports.py).        *)
(*  - process_meta_issues, process_single_issue and update_issue_labels    *)
(*    (crowdsourcing/meta_runner.py): the run over the closed issues.      *)
(*                                                                         *)
(* Strings built by the code are modelled as records that keep the parts   *)
(* the string is built from; Python dicts as sequences of key/value pairs  *)
(* in insertion order.                                                     *)
(***************************************************************************)
EXTENDS Integers, Sequences, FiniteSets, TLC

VARIABLES
    index,      \* the persisted index file (github_reports, zenodo_reports, last_archive)
    files,      \* reports_dir: report name -> creation time of the local file
    clock,      \* wall clock (datetime.now(), os.path.getctime)
    nextDep,    \* the identifier Zenodo gives to the next deposition
    last,       \* the last ArchiveManager call: its arguments and its outcome
    calls,      \* number of add_report and archive_reports calls made so far
    api,        \* the GitHub API call in progress (retry loop state)
    tv,         \* a _validate_title call: its title, the service's answer, its result
    val,        \* the last validate call: its arguments, what it did, its result
    run,        \* the process_open_issues run: its issues, its position, its locals
    ans,        \* the answer call in progress: its arguments and its position
    log,        \* what the run has done so far, in order (calls and issue-tracker writes)
    meta,       \* the store_meta_input call: its issues, its buffers, the files written
    conc,       \* two processes on one index file: the file and each process's copy
    mrun        \* the process_meta_issues run: its issues, the input directories, the labels

archiveVars == <<index, files, clock, nextDep, last, calls>>
retryVars == <<api>>
validateVars == <<tv, val>>
processVars == <<run, ans, log>>
restVars == <<run, ans, log, meta, conc, mrun>>
vars ==
    <<index, files, clock, nextDep, last, calls, api, tv, val, run, ans, log, meta, conc,
      mrun>>

---------------------------------------------------------------------------
(* Bounds of the model *)

NumReports == 4     \* report names validation_issue_1.html .. validation_issue_<NumReports>.html
NumUrls == 2        \* distinct live URLs a caller may register
MaxCalls == 3       \* add_report and archive_reports calls in one behaviour
MaxClock == 3       \* the clock stops ticking here (file writes in one behaviour)
MaxTime == 2        \* rate-limit reset timestamps and time.time() readings: 0..MaxTime
MaxWords == 4       \* words of an issue title (joined by single spaces)
MaxBodyLen == 4     \* pieces of an issue body (sentinel, CSV text, whitespace)
MaxIssues == 2      \* issues get_open_issues returns in one run
MaxStored == 2      \* issues given to one store_meta_input call
MaxBatches == 2     \* a CSV section holds at most MaxBatches full files and one row
MaxClosed == 2      \* closed issues get_closed_issues returns in one run
MaxAdds == 4        \* add_report calls of a behaviour in which migrations fail

(* Configuration (validation_reports section of the archive configuration) *)

max_reports_before_archive == 3
archive_batch_size == 2

(* The retry budget and the delay of the GitHub API readers *)

MAX_RETRIES == 3
RETRY_DELAY == 5

Reports == 1..NumReports
Urls == 1..NumUrls

---------------------------------------------------------------------------
(* Values *)

\* A URL string, kept as the parts it is formatted from.
\*   github: the live URL given to add_report (which = the URL given)
\*   doi:    the DOI of a published deposition, as publish returns it
\*   doi.org: f"https://doi.org/{doi}"
\*   file:   the direct URL of file `name` inside the published deposition
\*   none:   Python's None
Url(kind, dep, which) == [kind |-> kind, dep |-> dep, which |-> which]
NoneUrl == Url("none", 0, 0)
GithubUrl(u) == Url("github", 0, u)
Doi(dep) == Url("doi", dep, 0)
DoiUrl(dep) == Url("doi.org", dep, 0)
FileUrl(dep, name) == Url("file", dep, name)

NoTimestamp == 0    \* last_archive: None

Min(a, b) == IF a <= b THEN a ELSE b
Max(a, b) == IF a >= b THEN a ELSE b

---------------------------------------------------------------------------
(* Python dict: a sequence of [key, val] in insertion order *)

DictKeys(d) == [i \in 1..Len(d) |-> d[i].key]
KeySet(d) == {d[i].key : i \in 1..Len(d)}
DictHas(d, k) == k \in KeySet(d)
DictGet(d, k) == d[CHOOSE i \in 1..Len(d) : d[i].key = k].val
\* d[k] = v: an existing key keeps its position
DictSet(d, k, v) ==
    IF DictHas(d, k)
    THEN [i \in 1..Len(d) |-> IF d[i].key = k THEN [key |-> k, val |-> v] ELSE d[i]]
    ELSE Append(d, [key |-> k, val |-> v])
\* d.pop(k)
DictPop(d, k) == SelectSeq(d, LAMBDA e : e.key # k)

SeqSet(s) == {s[i] : i \in 1..Len(s)}

---------------------------------------------------------------------------
(* ArchiveManager *)

\* _init_index
InitIndex ==
    [github_reports |-> <<>>, zenodo_reports |-> <<>>, last_archive |-> NoTimestamp]

\* The sort key of archive_reports: creation time of the file, 0 when the
\* file does not exist.
CtimeKey(fs, x) == IF x \in DOMAIN fs THEN fs[x] ELSE 0

\* Mutant of SortedByCtime: the hot names are left in insertion order.
SortedByInsertion(keys, fs) == keys

\* sorted(keys, key=...): Python's sort is stable.
SortedByCtime(keys, fs) ==
    LET n == Len(keys)
        pos(i) == 1 + Cardinality({j \in 1..n :
                        \/ CtimeKey(fs, keys[j]) < CtimeKey(fs, keys[i])
                        \/ (CtimeKey(fs, keys[j]) = CtimeKey(fs, keys[i]) /\ j < i)})
    IN [p \in 1..n |-> keys[CHOOSE i \in 1..n : pos(i) = p]]

\* The slice [: archive_batch_size] of the sorted hot names.
ReportsToArchive(idx, fs) ==
    LET sorted == SortedByCtime(DictKeys(idx.github_reports), fs)
    IN SubSeq(sorted, 1, Min(archive_batch_size, Len(sorted)))

\* The cold-tier requests of one archive_reports call, in order: create the
\* deposition, upload every selected report whose file exists, publish.
ArchiveRequests(sel, fs) ==
    <<[req |-> "create", name |-> 0]>>
    \o [i \in 1..Len(SelectSeq(sel, LAMBDA r : r \in DOMAIN fs)) |->
            [req |-> "upload", name |-> SelectSeq(sel, LAMBDA r : r \in DOMAIN fs)[i]]]
    \o <<[req |-> "publish", name |-> 0]>>

\* The "Update index" loop: every selected report whose file exists is popped
\* from github_reports, recorded in zenodo_reports, and its file removed.
RECURSIVE UpdateIndex(_, _, _, _)
UpdateIndex(idx, fs, sel, dep) ==
    IF sel = <<>> THEN [index |-> idx, files |-> fs]
    ELSE LET report == Head(sel) IN
         IF report \notin DOMAIN fs
         THEN UpdateIndex(idx, fs, Tail(sel), dep)
         ELSE UpdateIndex(
                [idx EXCEPT !.github_reports = DictPop(@, report),
                            !.zenodo_reports = DictSet(@, report, DoiUrl(dep))],
                [x \in (DOMAIN fs) \ {report} |-> fs[x]],
                Tail(sel), dep)

\* Mutant of ArchiveFailure: the index is updated and the files are removed
\* before the failing request is made.
ArchiveFailureAfterUpdate(idx, fs, sel, fail) ==
    [ret |-> NoneUrl, raised |-> TRUE,
     index |-> UpdateIndex(idx, fs, sel, 0).index,
     files |-> UpdateIndex(idx, fs, sel, 0).files,
     requests |-> SubSeq(ArchiveRequests(sel, fs), 1, fail),
     selected |-> sel, published |-> FALSE]

\* What archive_reports does when request number `fail` raises (its index is
\* in ArchiveRequests): the error is logged and re-raised.
ArchiveFailure(idx, fs, sel, fail) ==
    [ret |-> NoneUrl, raised |-> TRUE, index |-> idx, files |-> fs,
     requests |-> SubSeq(ArchiveRequests(sel, fs), 1, fail),
     selected |-> sel, published |-> FALSE]

\* The outcome of a call that touches neither the files nor the cold tier.
NoEffect(idx, fs) ==
    [ret |-> NoneUrl, raised |-> FALSE, index |-> idx, files |-> fs,
     requests |-> <<>>, selected |-> <<>>, published |-> FALSE]

\* Mutant of ArchiveNothing: no early return, an empty deposition is created
\* and published.
ArchiveNothingPublishes(idx, fs) ==
    [ret |-> Doi(0), raised |-> FALSE,
     index |-> [idx EXCEPT !.last_archive = 1], files |-> fs,
     requests |-> ArchiveRequests(<<>>, fs), selected |-> <<>>, published |-> TRUE]

\* What archive_reports does when no hot report is selected: return None.
ArchiveNothing(idx, fs) == NoEffect(idx, fs)

\* Mutant of ArchiveSuccess: the files are removed but the updated index is
\* not saved.
ArchiveSuccessUnsaved(idx, fs, sel, now, dep) ==
    [ret |-> Doi(dep), raised |-> FALSE, index |-> idx,
     files |-> UpdateIndex(idx, fs, sel, dep).files,
     requests |-> ArchiveRequests(sel, fs),
     selected |-> sel, published |-> TRUE]

\* What archive_reports does when every request succeeds.
ArchiveSuccess(idx, fs, sel, now, dep) ==
    LET upd == UpdateIndex(idx, fs, sel, dep) IN
    [ret |-> Doi(dep), raised |-> FALSE,
     index |-> [upd.index EXCEPT !.last_archive = now],
     files |-> upd.files,
     requests |-> ArchiveRequests(sel, fs),
     selected |-> sel, published |-> TRUE]

\* archive_reports, on the loaded index idx. fail = 0: the cold tier
\* answers every request; fail = k > 0: the k-th request raises.
archive_reports(idx, fs, now, dep, fail) ==
    LET sel == ReportsToArchive(idx, fs) IN
    IF sel = <<>> THEN ArchiveNothing(idx, fs)
    ELSE IF fail = 0 THEN ArchiveSuccess(idx, fs, sel, now, dep)
    ELSE ArchiveFailure(idx, fs, sel, fail)

\* Mutant of NeedsArchive: the threshold must be exceeded, not only reached.
NeedsArchiveAbove(idx) == Len(idx.github_reports) > max_reports_before_archive

\* The threshold test of add_report.
NeedsArchive(idx) == Len(idx.github_reports) >= max_reports_before_archive

\* Mutant of add_report: the index with the new entry is saved only after
\* the migration, so a migration that raises loses the entry.
add_report_saves_last(idx, fs, now, dep, name, url, fail) ==
    LET saved == [idx EXCEPT !.github_reports = DictSet(@, name, GithubUrl(url))]
        out == archive_reports(saved, fs, now, dep, fail)
    IN IF NeedsArchive(saved)
       THEN [out EXCEPT !.ret = NoneUrl, !.index = IF out.raised THEN idx ELSE @]
            @@ [triggered |-> TRUE]
       ELSE NoEffect(saved, fs) @@ [triggered |-> FALSE]

\* add_report: the entry is saved first, then the threshold is checked.
add_report(idx, fs, now, dep, name, url, fail) ==
    LET saved == [idx EXCEPT !.github_reports = DictSet(@, name, GithubUrl(url))] IN
    IF NeedsArchive(saved)
    THEN [archive_reports(saved, fs, now, dep, fail) EXCEPT !.ret = NoneUrl]
         @@ [triggered |-> TRUE]
    ELSE NoEffect(saved, fs) @@ [triggered |-> FALSE]

\* get_report_url: github_reports is looked up first, then zenodo_reports.
\* The method only loads the index: it is a function of the persisted index,
\* and what it returns in a state is get_report_url(index, name).
get_report_url(idx, name) ==
    IF DictHas(idx.github_reports, name) THEN DictGet(idx.github_reports, name)
    ELSE IF DictHas(idx.zenodo_reports, name) THEN DictGet(idx.zenodo_reports, name)
    ELSE NoneUrl

---------------------------------------------------------------------------
(* The GitHub API readers: get_user_id, get_open_issues, get_closed_issues *)

\* What one requests.get gives:
\*   ok            200, body as expected
\*   badbody       200, an expected key missing from the body
\*   notfound      404
\*   ratelimit     403, X-RateLimit-Remaining = 0, X-RateLimit-Reset = reset,
\*                 time.time() reading `now` when the response is handled
\*   quota_left    403, X-RateLimit-Remaining > 0
\*   forbidden     403 without rate-limit headers
\*   server_error  5xx
\*   timeout       requests.ReadTimeout raised
\*   connerr       requests.ConnectionError raised
\*   reqerr        another requests.RequestException raised
PlainKinds ==
    {"ok", "badbody", "notfound", "quota_left", "forbidden", "server_error",
     "timeout", "connerr", "reqerr"}
Response(kind, reset, now) == [kind |-> kind, reset |-> reset, now |-> now]
Responses ==
    {Response(k, 0, 0) : k \in PlainKinds}
    \cup {Response("ratelimit", reset, now) : reset \in 0..MaxTime, now \in 0..MaxTime}

Functions == {"get_user_id", "get_open_issues", "get_closed_issues"}

\* The state of one call: `attempt` is the loop variable, `hist` the responses
\* received, `slept` the arguments of the time.sleep calls made after each.
IdleApi ==
    [status |-> "idle", fn |-> "none", attempt |-> 0, requests |-> 0,
     hist |-> <<>>, slept |-> <<>>, result |-> "none", cause |-> "none"]
Started(fn) == [IdleApi EXCEPT !.status = "running", !.fn = fn]

\* requests.get is called and answers r.
Received(st, r) ==
    [st EXCEPT !.requests = @ + 1, !.hist = Append(@, r), !.slept = Append(@, <<>>)]
\* time.sleep(d)
Sleep(st, d) == [st EXCEPT !.slept[Len(st.slept)] = Append(@, d)]
\* return res
Return(st, res) == [st EXCEPT !.status = "returned", !.result = res]
\* raise exc (from cause)
Raise(st, exc, cause) ==
    [st EXCEPT !.status = "raised", !.result = exc, !.cause = cause]
\* `continue`, or the end of the loop body: the for loop takes the next value
\* of range(MAX_RETRIES); when there is none, the statement after the loop
\* returns `exhausted`.
Continue(st, exhausted) ==
    IF st.attempt + 1 < MAX_RETRIES
    THEN [st EXCEPT !.attempt = @ + 1]
    ELSE Return([st EXCEPT !.attempt = @ + 1], exhausted)

\* Mutant of get_user_id_step: a rate-limited response does not use up an
\* attempt (the same attempt is made again).
get_user_id_step_free_retry(st0, r) ==
    LET st == Received(st0, r) IN
    CASE r.kind = "ok" -> Return(st, "id")
      [] r.kind = "badbody" -> Return(st, "None")
      [] r.kind = "notfound" -> Return(st, "None")
      [] r.kind = "ratelimit" -> Sleep(st, Max(r.reset - r.now, 0))
      [] r.kind \in {"quota_left", "forbidden", "server_error"} -> Continue(st, "None")
      [] r.kind = "timeout" -> Continue(st, "None")
      [] r.kind = "connerr" -> Continue(Sleep(st, RETRY_DELAY), "None")
      [] r.kind = "reqerr" -> Raise(st, "RequestException", r.kind)

\* Mutant of get_user_id_step: the fixed delay is slept after a timeout too.
get_user_id_step_timeout_delay(st0, r) ==
    LET st == Received(st0, r) IN
    CASE r.kind = "ok" -> Return(st, "id")
      [] r.kind = "badbody" -> Return(st, "None")
      [] r.kind = "notfound" -> Return(st, "None")
      [] r.kind = "ratelimit" -> Continue(Sleep(st, Max(r.reset - r.now, 0)), "None")
      [] r.kind \in {"quota_left", "forbidden", "server_error"} -> Continue(st, "None")
      [] r.kind = "timeout" -> Continue(Sleep(st, RETRY_DELAY), "None")
      [] r.kind = "connerr" -> Continue(Sleep(st, RETRY_DELAY), "None")
      [] r.kind = "reqerr" -> Raise(st, "RequestException", r.kind)

\* One iteration of the loop of get_user_id.
get_user_id_step(st0, r) ==
    LET st == Received(st0, r) IN
    CASE r.kind = "ok" -> Return(st, "id")
         \* response.json().get("id"): None when the key is missing
      [] r.kind = "badbody" -> Return(st, "None")
      [] r.kind = "notfound" -> Return(st, "None")
      [] r.kind = "ratelimit" -> Continue(Sleep(st, Max(r.reset - r.now, 0)), "None")
         \* any other status: no branch returns, the loop goes on
      [] r.kind \in {"quota_left", "forbidden", "server_error"} -> Continue(st, "None")
      [] r.kind = "timeout" -> Continue(st, "None")
      [] r.kind = "connerr" -> Continue(Sleep(st, RETRY_DELAY), "None")
         \* not caught by either except clause
      [] r.kind = "reqerr" -> Raise(st, "RequestException", r.kind)

\* Mutant of get_open_issues_step: a 404 is handled as an unexpected status.
get_open_issues_step_retries_404(st0, r) ==
    LET st == Received(st0, r) IN
    CASE r.kind = "ok" -> Return(st, "issues")
      [] r.kind = "ratelimit" ->
            IF r.reset > r.now
            THEN Continue(Sleep(st, r.reset - r.now), "[]")
            ELSE Continue(st, "[]")
      [] r.kind \in {"notfound", "quota_left", "forbidden", "server_error"} ->
            Continue(st, "[]")
      [] r.kind \in {"timeout", "connerr", "reqerr", "badbody"} ->
            IF st.attempt < MAX_RETRIES - 1
            THEN Continue(Sleep(st, RETRY_DELAY), "[]")
            ELSE Raise(st, "RuntimeError", r.kind)

\* Mutant of get_open_issues_step: the rate-limit wait is the fixed delay.
get_open_issues_step_fixed_wait(st0, r) ==
    LET st == Received(st0, r) IN
    CASE r.kind = "ok" -> Return(st, "issues")
      [] r.kind = "notfound" -> Return(st, "[]")
      [] r.kind = "ratelimit" -> Continue(Sleep(st, RETRY_DELAY), "[]")
      [] r.kind \in {"quota_left", "forbidden", "server_error"} -> Continue(st, "[]")
      [] r.kind \in {"timeout", "connerr", "reqerr", "badbody"} ->
            IF st.attempt < MAX_RETRIES - 1
            THEN Continue(Sleep(st, RETRY_DELAY), "[]")
            ELSE Raise(st, "RuntimeError", r.kind)

\* One iteration of the loop of get_open_issues.
get_open_issues_step(st0, r) ==
    LET st == Received(st0, r) IN
    CASE r.kind = "ok" -> Return(st, "issues")
      [] r.kind = "notfound" -> Return(st, "[]")
      [] r.kind = "ratelimit" ->
            IF r.reset > r.now
            THEN Continue(Sleep(st, r.reset - r.now), "[]")
            ELSE Continue(st, "[]")
         \* 403 with quota left: the inner test fails, the loop goes on
      [] r.kind = "quota_left" -> Continue(st, "[]")
         \* unexpected status: printed, the loop goes on
      [] r.kind \in {"forbidden", "server_error"} -> Continue(st, "[]")
         \* RequestException, or KeyError while the issues are read
      [] r.kind \in {"timeout", "connerr", "reqerr", "badbody"} ->
            IF st.attempt < MAX_RETRIES - 1
            THEN Continue(Sleep(st, RETRY_DELAY), "[]")
            ELSE Raise(st, "RuntimeError", r.kind)

\* Mutant of get_closed_issues_step: the error of the last attempt is
\* swallowed and the empty list returned.
get_closed_issues_step_swallows(st0, r) ==
    LET st == Received(st0, r) IN
    CASE r.kind = "ok" -> Return(st, "issues")
      [] r.kind = "notfound" -> Return(st, "[]")
      [] r.kind = "ratelimit" ->
            IF r.reset > r.now
            THEN Continue(Sleep(st, r.reset - r.now), "[]")
            ELSE Continue(st, "[]")
      [] r.kind \in {"quota_left", "forbidden", "server_error"} -> Continue(st, "[]")
      [] r.kind \in {"timeout", "connerr", "reqerr", "badbody"} ->
            IF st.attempt < MAX_RETRIES - 1
            THEN Continue(Sleep(st, RETRY_DELAY), "[]")
            ELSE Continue(st, "[]")

\* Mutant of get_closed_issues_step: the rate-limit wait is reset - now, slept
\* without testing that the reset time is in the future.
get_closed_issues_step_unclamped(st0, r) ==
    LET st == Received(st0, r) IN
    CASE r.kind = "ok" -> Return(st, "issues")
      [] r.kind = "notfound" -> Return(st, "[]")
      [] r.kind = "ratelimit" -> Continue(Sleep(st, r.reset - r.now), "[]")
      [] r.kind \in {"quota_left", "forbidden", "server_error"} -> Continue(st, "[]")
      [] r.kind \in {"timeout", "connerr", "reqerr", "badbody"} ->
            IF st.attempt < MAX_RETRIES - 1
            THEN Continue(Sleep(st, RETRY_DELAY), "[]")
            ELSE Raise(st, "RuntimeError", r.kind)

\* One iteration of the loop of get_closed_issues.
get_closed_issues_step(st0, r) ==
    LET st == Received(st0, r) IN
    CASE r.kind = "ok" -> Return(st, "issues")
      [] r.kind = "notfound" -> Return(st, "[]")
      [] r.kind = "ratelimit" ->
            IF r.reset > r.now
            THEN Continue(Sleep(st, r.reset - r.now), "[]")
            ELSE Continue(st, "[]")
      [] r.kind = "quota_left" -> Continue(st, "[]")
      [] r.kind \in {"forbidden", "server_error"} -> Continue(st, "[]")
      [] r.kind \in {"timeout", "connerr", "reqerr", "badbody"} ->
            IF st.attempt < MAX_RETRIES - 1
            THEN Continue(Sleep(st, RETRY_DELAY), "[]")
            ELSE Raise(st, "RuntimeError", r.kind)

---------------------------------------------------------------------------
(* Issue titles and _validate_title *)

\* A title is a string, kept as the sequence of the pieces the regular
\* expression of _validate_title tells apart:
\*   " "          one whitespace character
\*   ":"          a colon
\*   a run of letters: a word of SchemeWords, "deposit" or "localhost"
\*   any other run of characters without whitespace or colon, in which no
\*   letter is followed by a colon: "journal.com", "330", "10.1"
SchemeWords ==
    {"doi", "isbn", "pmid", "pmcid", "url", "wikidata", "wikipedia", "openalex",
     "temp", "local", "arxiv", "DOI"}
LetterRuns == SchemeWords \cup {"deposit", "localhost"}

IsSpace(c) == c = " "
IsLetters(c) == c \in LetterRuns

\* str.lower and str.upper on the letter runs they are applied to
Lower(c) == IF c = "DOI" THEN "doi" ELSE c
Upper(c) ==
    CASE c = "doi" -> "DOI"
      [] c = "isbn" -> "ISBN"
      [] c = "pmid" -> "PMID"
      [] c = "pmcid" -> "PMCID"
      [] c = "url" -> "URL"
      [] c = "wikidata" -> "WIKIDATA"
      [] c = "wikipedia" -> "WIKIPEDIA"
      [] c = "openalex" -> "OPENALEX"

\* The words titles are written with; `scheme` is the scheme word of the title.
\*   deposit   "deposit"
\*   empty     ""              (two words around it are two spaces apart)
\*   domain    "journal.com"
\*   hostport  "localhost:330"
\*   id        "<scheme>:10.1"
\*   noval     "<scheme>:"
\*   nocolon   "<scheme>10.1"
WordForms == {"deposit", "empty", "domain", "hostport", "id", "noval", "nocolon"}
Word(form, scheme) ==
    CASE form = "deposit" -> <<"deposit">>
      [] form = "empty" -> <<>>
      [] form = "domain" -> <<"journal.com">>
      [] form = "hostport" -> <<"localhost", ":", "330">>
      [] form = "id" -> <<scheme, ":", "10.1">>
      [] form = "noval" -> <<scheme, ":">>
      [] form = "nocolon" -> <<scheme, "10.1">>

\* " ".join(words)
RECURSIVE Join(_, _)
Join(forms, scheme) ==
    IF forms = <<>> THEN <<>>
    ELSE IF Len(forms) = 1 THEN Word(forms[1], scheme)
    ELSE Word(Head(forms), scheme) \o <<" ">> \o Join(Tail(forms), scheme)

AllSpace(t, a, b) == \A x \in a..b : IsSpace(t[x])

\* r"deposit\s+(.+?)\s+([a-zA-Z]+):(.+)" with re.IGNORECASE, matched piece by
\* piece. (No two runs of letters are adjacent in a title, so that [a-zA-Z]+
\* is one piece; every letter of "deposit" is lower case here.)

\* \s+([a-zA-Z]+):(.+) matches from k + 1 with \s+ ending at l: the run of
\* letters at l + 1 is followed by a colon and at least one more character.
SuffixAt(t, k, l) ==
    /\ k < l /\ AllSpace(t, k + 1, l)
    /\ l + 3 <= Len(t)
    /\ IsLetters(t[l + 1])
    /\ t[l + 2] = ":"
\* (.+?)\s+([a-zA-Z]+):(.+) matches from j + 1 with group 1 ending at k
GroupAt(t, j, k) == j < k /\ \E l \in (k + 1)..(Len(t) - 3) : SuffixAt(t, k, l)
\* \s+(.+?)\s+([a-zA-Z]+):(.+) matches from i + 1 with the first \s+ ending at j
SpaceAt(t, i, j) ==
    i < j /\ AllSpace(t, i + 1, j) /\ \E k \in (j + 1)..(Len(t) - 4) : GroupAt(t, j, k)
\* the whole expression matches at i
MatchAt(t, i) == t[i] = "deposit" /\ \E j \in (i + 1)..(Len(t) - 5) : SpaceAt(t, i, j)

Least(S) == CHOOSE x \in S : \A y \in S : x <= y
Greatest(S) == CHOOSE x \in S : \A y \in S : x >= y

NoMatch == [found |-> FALSE, scheme |-> "", identifier |-> <<>>]
\* match.group(2) and match.group(3), the second \s+ ending at l
Groups(t, l) ==
    [found |-> TRUE, scheme |-> t[l + 1], identifier |-> SubSeq(t, l + 3, Len(t))]

\* re.search: the leftmost start i; there the first \s+ is greedy (the
\* longest run that lets the rest match), group 1 is lazy (the shortest),
\* and the second \s+ runs up to the letters.
Search(t) ==
    LET n == Len(t)
        first(S) == IF S = {} THEN {} ELSE {Least(S)}
        greatest(S) == IF S = {} THEN {} ELSE {Greatest(S)}
        found ==
            UNION {UNION {UNION {{Groups(t, l) : l \in {x \in (k + 1)..n : SuffixAt(t, k, x)}}
                : k \in first({x \in (j + 1)..n : GroupAt(t, j, x)})}
                : j \in greatest({x \in (i + 1)..n : SpaceAt(t, i, x)})}
                : i \in first({x \in 1..n : MatchAt(t, x)})}
    IN IF found = {} THEN NoMatch ELSE CHOOSE r \in found : TRUE

\* The keys of manager_map
manager_map ==
    {"doi", "isbn", "pmid", "pmcid", "url", "wikidata", "wikipedia", "openalex"}

\* The messages validate and _validate_title return, kept as the parts they
\* are formatted from.
Message(kind) ==
    [kind |-> kind, schema |-> "", identifier |-> <<>>, parts |-> <<>>,
     report |-> 0, error |-> ""]
NoMessage == Message("")
MalformedTitle == Message("title of the issue was not structured correctly")
UnsupportedSchema(schema) ==
    [Message("identifier schema is not supported") EXCEPT !.schema = schema]
InvalidIdentifier(identifier, schema) ==
    [Message("identifier is not a valid") EXCEPT
        !.identifier = identifier, !.schema = schema]

\* _validate_title(title); `accepts` is what id_manager.is_valid answers when
\* it is asked.
_validate_title(t, accepts) ==
    LET match == Search(t)
        identifier_schema == Lower(match.scheme)
    IN IF ~match.found
       THEN [valid |-> FALSE, msg |-> MalformedTitle, consulted |-> FALSE]
       ELSE IF identifier_schema \notin manager_map
       THEN [valid |-> FALSE, msg |-> UnsupportedSchema(identifier_schema),
             consulted |-> FALSE]
       ELSE IF ~accepts
       THEN [valid |-> FALSE,
             msg |-> InvalidIdentifier(match.identifier, Upper(identifier_schema)),
             consulted |-> TRUE]
       ELSE [valid |-> TRUE, msg |-> NoMessage, consulted |-> TRUE]

---------------------------------------------------------------------------
(* Issue bodies and validate *)

\* A body is None or a string, kept as the sequence of its pieces:
\*   "===###===@@@==="   the separator
\*   "csv"               CSV text (no whitespace at its ends)
\*   " "                 whitespace
Separator == "===###===@@@==="
BodyPieces == {Separator, "csv", " "}
NoneBody == [none |-> TRUE, text |-> <<>>]
Body(text) == [none |-> FALSE, text |-> text]

\* `not issue_body`: None and "" are falsy
Falsy(body) == body.none \/ body.text = <<>>
\* "===###===@@@===" in issue_body
HasSeparator(body) == \E i \in 1..Len(body.text) : body.text[i] = Separator

\* issue_body.split("===###===@@@===")
RECURSIVE Split(_)
Split(text) ==
    IF \A i \in 1..Len(text) : text[i] # Separator THEN <<text>>
    ELSE LET i == CHOOSE x \in 1..Len(text) :
                     text[x] = Separator /\ \A y \in 1..(x - 1) : text[y] # Separator
         IN <<SubSeq(text, 1, i - 1)>> \o Split(SubSeq(text, i + 1, Len(text)))

\* str.strip()
RECURSIVE Strip(_)
Strip(text) ==
    IF text = <<>> THEN <<>>
    ELSE IF IsSpace(Head(text)) THEN Strip(Tail(text))
    ELSE IF IsSpace(text[Len(text)]) THEN Strip(SubSeq(text, 1, Len(text) - 1))
    ELSE text

EmptyBody == Message("The issue body cannot be empty")
MissingSeparator == Message("Please use the separator")
Thanks == Message("Thank you for your contribution")
\* f"Validation errors found in {' and '.join(error_parts)}. Please check the
\* detailed validation report: {base_url}/validation_reports/index.html?report={report_filename}"
ValidationErrors(error_parts, report_filename) ==
    [Message("Validation errors found in") EXCEPT
        !.parts = error_parts, !.report = report_filename]
\* f"Error validating data: {str(e)}. Please ensure both metadata and
\* citations are valid CSVs following the required format."
ErrorValidating(e) == [Message("Error validating data") EXCEPT !.error = e]

\* What ClosureValidator.validate() leaves behind:
\*   raises   an exception (the CSV cannot be read, ...)
\*   none     no summary file, or empty ones
\*   meta     a non-empty meta_validation_summary.txt
\*   cits     a non-empty cits_validation_summary.txt
\*   both     both
ValidatorOutcomes == {"raises", "none", "meta", "cits", "both"}

\* f"validation_issue_{issue_number}.html": the reports are named by the
\* number of the issue they are about.
ReportFilename(issue_number) == issue_number
\* f"{base_url}/validation_reports/{report_filename}": one URL per filename.
ReportUrl(report_filename) == report_filename

\* No add_report call was made.
NoAdd == NoEffect(InitIndex, <<>>) @@ [triggered |-> FALSE, called |-> FALSE]

\* What a validate call gives: the pair returned (or the exception raised),
\* the steps made in order (`did`), the sections written to the temporary
\* files, the index and the report files it leaves, and the outcome of its
\* add_report call.
Verdict(valid, msg, did, idx, fs) ==
    [valid |-> valid, msg |-> msg, raised |-> FALSE, did |-> did,
     metadata_csv |-> <<>>, citations_csv |-> <<>>,
     index |-> idx, files |-> fs, written |-> FALSE, add |-> NoAdd]

\* Mutant of ExceptException: no except clause, the exception goes up.
ExceptExceptionReraises(v, e) ==
    [v EXCEPT !.valid = FALSE, !.msg = NoMessage, !.raised = TRUE]

\* except Exception as e: the error is logged and turned into a verdict.
ExceptException(v, e) ==
    [v EXCEPT !.valid = FALSE, !.msg = ErrorValidating(e), !.raised = FALSE]

\* finally: the temporary files and validation_output_dir are removed.
Finally(v) == [v EXCEPT !.did = Append(@, "cleanup")]

\* The part of the try block that follows validator.validate() when it found
\* errors: the HTML report is made and written to report_path, registered
\* with the archive manager, and the message names the parts with errors.
\* (fs is the report directory once report_path is written, add the outcome
\* of archive_manager.add_report; each is bound to its value once.)
ReportErrors(v, now, dep, issue_number, has_meta_errors, has_cits_errors, fail) ==
    LET report_filename == ReportFilename(issue_number)
        gui == (IF has_meta_errors THEN <<"make_gui(meta)">> ELSE <<>>)
               \o (IF has_cits_errors THEN <<"make_gui(cits)">> ELSE <<>>)
        copy == IF has_meta_errors /\ has_cits_errors THEN "merge_html_files"
                ELSE IF has_meta_errors THEN "copy(meta_report)"
                ELSE "copy(cits_report)"
        error_parts == (IF has_meta_errors THEN <<"metadata">> ELSE <<>>)
                       \o (IF has_cits_errors THEN <<"citations">> ELSE <<>>)
        Registered(add) ==
            LET w == [v EXCEPT !.did = @ \o gui \o <<copy, "add_report">>,
                               !.index = add.index, !.files = add.files,
                               !.written = TRUE,
                               !.add = add @@ [called |-> TRUE]]
            IN IF add.raised
               THEN ExceptException(w, "archive_reports")
               ELSE [w EXCEPT !.valid = FALSE,
                              !.msg = ValidationErrors(error_parts, report_filename)]
    IN CHOOSE r \in
         {Registered(add) :
            add \in {add_report(v.index, fs, now + 1, dep, report_filename,
                                ReportUrl(report_filename), fail) :
                       fs \in {[x \in (DOMAIN v.files) \cup {report_filename} |->
                                  IF x = report_filename THEN now ELSE v.files[x]]}}} :
         TRUE

\* The try block of validate, with its except and finally clauses.
TryBlock(did, idx, fs, now, dep, body, issue_number, outcome, fail) ==
    LET split_data == Split(body.text)
        has_meta_errors == outcome \in {"meta", "both"}
        has_cits_errors == outcome \in {"cits", "both"}
        Try(v) ==
            IF outcome = "raises" THEN ExceptException(v, "validator")
            ELSE IF has_meta_errors \/ has_cits_errors
            THEN ReportErrors(v, now, dep, issue_number,
                              has_meta_errors, has_cits_errors, fail)
            ELSE [v EXCEPT !.valid = TRUE, !.msg = Thanks]
    IN CHOOSE r \in
         {Finally(Try(v)) :
            v \in {[Verdict(FALSE, NoMessage, did, idx, fs) EXCEPT
                      !.did = @ \o <<"makedirs", "write_temp", "validator">>,
                      !.metadata_csv = Strip(split_data[1]),
                      !.citations_csv = Strip(split_data[2])]}} :
         TRUE

\* What validate knows once _validate_title has returned `title`: the step
\* made so far.
TitleSteps(title) == IF title.consulted THEN <<"is_valid">> ELSE <<>>

\* Mutant of validate: the body is checked before the title.
validate_body_first(idx, fs, now, dep, title, body, issue_number, outcome, fail) ==
    IF Falsy(body) THEN Verdict(FALSE, EmptyBody, <<>>, idx, fs)
    ELSE IF ~HasSeparator(body) THEN Verdict(FALSE, MissingSeparator, <<>>, idx, fs)
    ELSE IF ~title.valid THEN Verdict(FALSE, title.msg, TitleSteps(title), idx, fs)
    ELSE TryBlock(TitleSteps(title), idx, fs, now, dep, body, issue_number, outcome, fail)

\* Mutant of validate: no test of an empty body.
validate_no_empty_test(idx, fs, now, dep, title, body, issue_number, outcome, fail) ==
    IF ~title.valid THEN Verdict(FALSE, title.msg, TitleSteps(title), idx, fs)
    ELSE IF ~HasSeparator(body)
    THEN Verdict(FALSE, MissingSeparator, TitleSteps(title), idx, fs)
    ELSE TryBlock(TitleSteps(title), idx, fs, now, dep, body, issue_number, outcome, fail)

\* validate(issue_title, issue_body, issue_number), on the index idx and the
\* report files fs. `title` is what _validate_title(issue_title) returns (the
\* first statement of validate), `outcome` what the validator leaves, `fail`
\* the failing cold-tier request of a migration (0: none).
validate(idx, fs, now, dep, title, body, issue_number, outcome, fail) ==
    IF ~title.valid THEN Verdict(FALSE, title.msg, TitleSteps(title), idx, fs)
    ELSE IF Falsy(body) THEN Verdict(FALSE, EmptyBody, TitleSteps(title), idx, fs)
    ELSE IF ~HasSeparator(body)
    THEN Verdict(FALSE, MissingSeparator, TitleSteps(title), idx, fs)
    ELSE TryBlock(TitleSteps(title), idx, fs, now, dep, body, issue_number, outcome, fail)

---------------------------------------------------------------------------
(* State machine of the ArchiveManager and its environment *)

Hot == KeySet(index.github_reports)
Cold == KeySet(index.zenodo_reports)

\* The failure points a call may meet: none, or the k-th cold-tier request.
FailPoints(idx, fs) ==
    IF ReportsToArchive(idx, fs) = <<>> THEN {0}
    ELSE 0..Len(ArchiveRequests(ReportsToArchive(idx, fs), fs))

NoCall ==
    [op |-> "none", name |-> 0, url |-> 0, ret |-> NoneUrl, raised |-> FALSE,
     triggered |-> FALSE, published |-> FALSE, requests |-> <<>>, selected |-> <<>>,
     fail |-> 0, after_failure |-> FALSE]

\* The record of a call; after_failure: the call before it was an add_report
\* whose migration raised.
Called(op, name, url, out, trig, fail) ==
    [op |-> op, name |-> name, url |-> url, ret |-> out.ret, raised |-> out.raised,
     triggered |-> trig, published |-> out.published, requests |-> out.requests,
     selected |-> out.selected, fail |-> fail,
     after_failure |-> last.op = "add_report" /\ last.triggered /\ last.raised]

\* Zenodo numbers a deposition when the create request succeeds.
Created(out) == out.requests # <<>> /\ (out.raised => Len(out.requests) > 1)

InitArchive ==
    /\ index = InitIndex
    /\ files = <<>>
    /\ clock = 1
    /\ nextDep = 1
    /\ last = NoCall
    /\ calls = 0

\* Report names are interchangeable: a name that has never been used (not in
\* the index, no file) is taken in increasing order, which leaves one
\* representative of every behaviour up to renaming. Likewise the live URLs
\* of one name: the URL registered for a name that is not hot is URL 1.
Used == Hot \cup Cold \cup DOMAIN files
Usable == {name \in Reports : \A m \in Reports : m < name => m \in Used}

\* The file `name` is written into reports_dir at the current time.
WriteFile(name) ==
    /\ files' = [x \in (DOMAIN files) \cup {name} |-> IF x = name THEN clock ELSE files[x]]
    /\ clock' = clock + 1
    /\ UNCHANGED <<index, nextDep, last, calls, api, tv, val, restVars>>

\* The validator (or anyone) writes, or rewrites, the report file `name`.
WriteReport(name) ==
    /\ clock < MaxClock
    /\ name \in Usable
    /\ WriteFile(name)

\* add_report(name, url) runs, the cold tier failing at `fail`.
DoAddReport(name, url, fail) ==
    LET out == add_report(index, files, clock, nextDep, name, url, fail) IN
    /\ index' = out.index
    /\ files' = out.files
    /\ nextDep' = IF Created(out) THEN nextDep + 1 ELSE nextDep
    /\ last' = Called("add_report", name, url, out, out.triggered, fail)
    /\ calls' = calls + 1
    /\ UNCHANGED <<clock, api, tv, val, restVars>>

\* A caller runs add_report(name, url).
AddReport(name, url) ==
    /\ calls < MaxCalls
    /\ name \in Usable
    /\ name \notin Hot => url = 1
    /\ LET saved == [index EXCEPT !.github_reports = DictSet(@, name, GithubUrl(url))] IN
       \E fail \in (IF NeedsArchive(saved) THEN FailPoints(saved, files) ELSE {0}) :
          DoAddReport(name, url, fail)

\* A caller runs archive_reports().
ArchiveReports ==
    /\ calls < MaxCalls
    /\ \E fail \in FailPoints(index, files) :
          LET out == archive_reports(index, files, clock, nextDep, fail) IN
          /\ index' = out.index
          /\ files' = out.files
          /\ nextDep' = IF Created(out) THEN nextDep + 1 ELSE nextDep
          /\ last' = Called("archive_reports", 0, 0, out, FALSE, fail)
          /\ calls' = calls + 1
    /\ UNCHANGED <<clock, api, tv, val, restVars>>

InitRetry == api = IdleApi

\* No _validate_title call and no validate call has been made.
NoTitle ==
    [status |-> "none", forms |-> <<>>, scheme |-> "doi", accepts |-> FALSE,
     valid |-> FALSE, msg |-> NoMessage, consulted |-> FALSE]
NoValidate ==
    [status |-> "none", forms |-> <<>>, scheme |-> "doi", accepts |-> FALSE,
     body |-> NoneBody, issue_number |-> 0, outcome |-> "none",
     valid |-> FALSE, msg |-> NoMessage, raised |-> FALSE, did |-> <<>>,
     metadata_csv |-> <<>>, citations_csv |-> <<>>, written |-> FALSE,
     registered |-> FALSE, triggered |-> FALSE, archive_raised |-> FALSE]

InitValidate == tv = NoTitle /\ val = NoValidate

\* No answer call is in progress.
NoAnswer ==
    [status |-> "none", is_valid |-> FALSE, message |-> NoMessage,
     issue_number |-> 0, is_authorized |-> FALSE, label |-> ""]
\* process_open_issues has not started.
NoRun ==
    [status |-> "idle", pc |-> "start", issues |-> <<>>, i |-> 0,
     user_id |-> "none", is_valid |-> FALSE, message |-> NoMessage,
     data_to_store |-> <<>>]
InitProcess == run = NoRun /\ ans = NoAnswer /\ log = <<>>

\* store_meta_input has not been called.
NoMeta ==
    [status |-> "none", issues |-> <<>>, i |-> 0,
     metadata_to_store |-> <<>>, citations_to_store |-> <<>>,
     metadata_counter |-> 0, citations_counter |-> 0, writes |-> <<>>,
     error |-> ""]
InitMeta == meta = NoMeta
\* Two processes share one index file and one reports directory; none has
\* started. A process has its position, the report it registers, its copy of
\* the index (index_data), the reports it selected, its loop counter and its
\* deposition.
Processes == {1, 2}
NoProcess ==
    [pc |-> "load", name |-> 0, index_data |-> InitIndex, sel |-> <<>>, k |-> 0,
     dep |-> 0]
NoConc ==
    [status |-> "none", file |-> InitIndex, dir |-> <<>>,
     proc |-> [p \in Processes |-> NoProcess],
     registered |-> {}, uploads |-> {}, published |-> {}, overlapped |-> FALSE]
InitConc == conc = NoConc

\* process_meta_issues has not started: the input directories of the month
\* are empty (a file is kept as its name, the counter, and its records).
NoMetaRun ==
    [status |-> "idle", pc |-> "start", issues |-> <<>>, i |-> 0,
     metadata_dir |-> <<>>, citations_dir |-> <<>>, success |-> FALSE,
     labels |-> <<>>, log |-> <<>>]
InitMetaRun == mrun = NoMetaRun

Init ==
    /\ InitArchive /\ InitRetry /\ InitValidate /\ InitProcess /\ InitMeta /\ InitConc
    /\ InitMetaRun

NextArchive ==
    \/ \E name \in Reports : WriteReport(name)
    \/ \E name \in Reports, url \in Urls : AddReport(name, url)
    \/ ArchiveReports

SpecArchive == Init /\ [][NextArchive]_vars

---------------------------------------------------------------------------
(* check_and_archive_reports, the entry point of the periodic archival *)

\* What the class ArchiveManager defines.
ArchiveManagerAttributes ==
    {"__init__", "_load_config", "_init_index", "_load_index", "_save_index",
     "add_report", "archive_reports", "get_report_url"}

\* archive_manager.<name>: Python raises AttributeError when the class (and
\* the instance) has no such attribute.
HasAttribute(name) == name \in ArchiveManagerAttributes

\* The outcome of a call that an exception leaves before it has done anything.
RaisedAtOnce(idx, fs) == [NoEffect(idx, fs) EXCEPT !.raised = TRUE]

\* check_and_archive_reports: ArchiveManager() is built, then
\* `archive_manager.needs_archival()` is evaluated, and the except clause
\* logs and re-raises whatever is raised. archive_reports() is reached only
\* through that test.
check_and_archive_reports(idx, fs, now, dep, fail) ==
    IF ~HasAttribute("needs_archival")
    THEN RaisedAtOnce(idx, fs) @@ [triggered |-> FALSE]
    ELSE IF NeedsArchive(idx)
    THEN archive_reports(idx, fs, now, dep, fail) @@ [triggered |-> TRUE]
    ELSE NoEffect(idx, fs) @@ [triggered |-> FALSE]

\* The periodic job runs check_and_archive_reports().
CheckAndArchiveReports ==
    /\ calls < MaxCalls
    /\ \E fail \in (IF HasAttribute("needs_archival") /\ NeedsArchive(index)
                     THEN FailPoints(index, files) ELSE {0}) :
          LET out == check_and_archive_reports(index, files, clock, nextDep, fail) IN
          /\ index' = out.index
          /\ files' = out.files
          /\ nextDep' = IF Created(out) THEN nextDep + 1 ELSE nextDep
          /\ last' = Called("check_and_archive_reports", 0, 0, out, out.triggered, fail)
          /\ calls' = calls + 1
    /\ UNCHANGED <<clock, api, tv, val, restVars>>

NextCheck ==
    \/ \E name \in Reports : WriteReport(name)
    \/ \E name \in Reports, url \in Urls : AddReport(name, url)
    \/ CheckAndArchiveReports

SpecCheck == Init /\ [][NextCheck]_vars

---------------------------------------------------------------------------
(* The registration scenario of test_archive_reports: from the empty index, *)
(* report files are created and then registered one at a time, each name    *)
(* once, the cold tier answering every request.                            *)

Registered == Cardinality(Hot \cup Cold)

\* The report file `name` is created (any name, any order).
CreateReport(name) ==
    /\ name \notin Used
    /\ WriteFile(name)

\* add_report for the next report, whose file exists; names are registered in
\* increasing order (they are interchangeable).
RegisterReport(name, url) ==
    /\ name \in DOMAIN files
    /\ name \notin Hot \cup Cold
    /\ \A m \in Reports : m < name => m \in Hot \cup Cold
    /\ url = 1
    /\ DoAddReport(name, url, 0)

NextThreshold ==
    \/ \E name \in Reports : CreateReport(name)
    \/ \E name \in Reports, url \in Urls : RegisterReport(name, url)

SpecThreshold == Init /\ [][NextThreshold]_vars

---------------------------------------------------------------------------
(* Registrations while the cold tier fails: report files are created (or   *)
(* not) and new reports are registered one after the other, the cold tier  *)
(* failing at any request of a migration or at none.                       *)

\* add_report for the next new report, the cold tier failing at `fail`.
RegisterNext(name, fail) ==
    /\ calls < MaxAdds
    /\ name \notin Hot \cup Cold
    /\ \A m \in Reports : m < name => m \in Hot \cup Cold
    /\ LET saved == [index EXCEPT !.github_reports = DictSet(@, name, GithubUrl(1))] IN
       fail \in (IF NeedsArchive(saved) THEN FailPoints(saved, files) ELSE {0})
    /\ DoAddReport(name, 1, fail)

NextBacklog ==
    \/ \E name \in Reports : CreateReport(name)
    \/ \E name \in Reports, fail \in 0..(archive_batch_size + 2) : RegisterNext(name, fail)

SpecBacklog == Init /\ [][NextBacklog]_vars

---------------------------------------------------------------------------
(* State machine of one call of a GitHub API reader *)

\* get_user_id(username) is called.
CallGetUserId ==
    /\ api.status = "idle"
    /\ api' = Started("get_user_id")
    /\ UNCHANGED <<archiveVars, validateVars, restVars>>

\* get_open_issues() is called.
CallGetOpenIssues ==
    /\ api.status = "idle"
    /\ api' = Started("get_open_issues")
    /\ UNCHANGED <<archiveVars, validateVars, restVars>>

\* get_closed_issues() is called.
CallGetClosedIssues ==
    /\ api.status = "idle"
    /\ api' = Started("get_closed_issues")
    /\ UNCHANGED <<archiveVars, validateVars, restVars>>

\* The running call makes its next request, GitHub (or the network) answers
\* r, and the loop body handles the answer.
Attempt(r) ==
    /\ api.status = "running"
    /\ api' = CASE api.fn = "get_user_id" -> get_user_id_step(api, r)
                [] api.fn = "get_open_issues" -> get_open_issues_step(api, r)
                [] api.fn = "get_closed_issues" -> get_closed_issues_step(api, r)
    /\ UNCHANGED <<archiveVars, validateVars, restVars>>

NextRetry ==
    \/ CallGetUserId
    \/ CallGetOpenIssues
    \/ CallGetClosedIssues
    \/ \E r \in Responses : Attempt(r)

SpecRetry == Init /\ [][NextRetry]_vars

---------------------------------------------------------------------------
(* _validate_title on the titles of at most MaxWords words *)

\* The titles: up to MaxWords words joined by single spaces, written with one
\* scheme word (the scheme word of a title that shows none is "doi").
TitleForms == UNION {[1..n -> WordForms] : n \in 0..MaxWords}
ShowsScheme(forms) ==
    \E i \in 1..Len(forms) : forms[i] \in {"id", "noval", "nocolon"}
Titles ==
    {[forms |-> f, scheme |-> s] : f \in TitleForms, s \in SchemeWords}

\* The title of the call.
InitTitle ==
    /\ InitArchive
    /\ InitRetry
    /\ InitProcess
    /\ InitMeta
    /\ InitConc
    /\ InitMetaRun
    /\ val = NoValidate
    /\ \E title \in Titles :
          /\ ShowsScheme(title.forms) \/ title.scheme = "doi"
          /\ tv = [NoTitle EXCEPT !.status = "called", !.forms = title.forms,
                                  !.scheme = title.scheme]

\* _validate_title(title) runs, the identifier service answering `accepts`
\* if it is asked.
ValidateTitle(accepts) ==
    /\ tv.status = "called"
    /\ LET r == _validate_title(Join(tv.forms, tv.scheme), accepts) IN
       tv' = [tv EXCEPT !.status = "returned", !.accepts = accepts,
                        !.valid = r.valid, !.msg = r.msg, !.consulted = r.consulted]
    /\ UNCHANGED <<archiveVars, retryVars, val, restVars>>

NextTitle == \E accepts \in BOOLEAN : ValidateTitle(accepts)

SpecTitle == InitTitle /\ [][NextTitle]_vars

---------------------------------------------------------------------------
(* State machine of validate, the module-level archive_manager behind it *)

\* The titles validate is called with: well formed with a supported scheme,
\* well formed with an unsupported scheme, and without the keyword.
SampleTitles ==
    {[forms |-> <<"deposit", "hostport", "id">>, scheme |-> "doi"],
     [forms |-> <<"deposit", "hostport", "id">>, scheme |-> "arxiv"],
     [forms |-> <<"domain", "id">>, scheme |-> "doi"]}

\* The bodies: None, and the strings of at most MaxBodyLen pieces.
Bodies ==
    {NoneBody} \cup
    {Body(text) : text \in UNION {[1..n -> BodyPieces] : n \in 0..MaxBodyLen}}

\* The call that registers a report and nothing else: a well-formed title
\* the identifier service accepts, a body of two CSV sections in which the
\* validator finds metadata errors.
PlainTitle == [forms |-> <<"deposit", "hostport", "id">>, scheme |-> "doi"]
PlainBody == Body(<<"csv", Separator, "csv">>)
PlainCall ==
    /\ val.forms = PlainTitle.forms /\ val.scheme = PlainTitle.scheme
    /\ val.accepts
    /\ val.body = PlainBody
    /\ val.outcome = "meta"

\* The answers the validator may be asked for, and the issue numbers that may
\* be used: an answer nobody asks for is the first one, and so is an issue
\* number that is not used.
AskedOutcomes(title, body) ==
    IF "validator" \in SeqSet(validate(index, files, clock, nextDep, title, body,
                                       1, "none", 0).did)
    THEN ValidatorOutcomes ELSE {"none"}
UsedNumbers(title, body, outcome) ==
    IF validate(index, files, clock, nextDep, title, body, 1, outcome, 0).add.called
    THEN Usable ELSE {1}

\* validate(t, body, issue_number) has returned v, the cold tier failing at
\* `fail`.
Validated(t, accepts, body, issue_number, outcome, fail, v) ==
    /\ index' = v.index
    /\ files' = v.files
    /\ clock' = IF v.written THEN clock + 1 ELSE clock
    /\ nextDep' = IF Created(v.add) THEN nextDep + 1 ELSE nextDep
    /\ last' = IF v.add.called
               THEN Called("add_report", ReportFilename(issue_number),
                           ReportUrl(ReportFilename(issue_number)),
                           v.add, v.add.triggered, fail)
               ELSE last
    /\ calls' = IF v.add.called THEN calls + 1 ELSE calls
    /\ val' = [status |-> "returned", forms |-> t.forms, scheme |-> t.scheme,
               accepts |-> accepts, body |-> body, issue_number |-> issue_number,
               outcome |-> outcome,
               valid |-> v.valid, msg |-> v.msg, raised |-> v.raised,
               did |-> v.did, metadata_csv |-> v.metadata_csv,
               citations_csv |-> v.citations_csv, written |-> v.written,
               registered |-> v.add.called, triggered |-> v.add.triggered,
               archive_raised |-> v.add.raised]

\* validate(t, body, issue_number) runs, for some body and issue number:
\* _validate_title(t) returns `title`, the validator leaves `outcome`.
\* A call that registers no report changes nothing, and a call that registers
\* one changes what the plain call changes: a behaviour is a run of plain
\* calls followed by one call of any kind, which leaves every state that
\* validate calls can reach.
Validate(t, accepts) ==
    /\ calls < MaxCalls
    /\ val.status = "none" \/ PlainCall
    /\ \E title \in {_validate_title(Join(t.forms, t.scheme), accepts)} :
          /\ title.consulted \/ accepts
          /\ \E body \in Bodies :
             \E outcome \in AskedOutcomes(title, body) :
             \E issue_number \in UsedNumbers(title, body, outcome) :
             \E v0 \in {validate(index, files, clock, nextDep, title, body,
                                 issue_number, outcome, 0)} :
             \E fail \in (IF v0.add.triggered THEN 0..Len(v0.add.requests) ELSE {0}) :
             \E v \in {IF fail = 0 THEN v0
                       ELSE validate(index, files, clock, nextDep, title, body,
                                     issue_number, outcome, fail)} :
                Validated(t, accepts, body, issue_number, outcome, fail, v)
    /\ UNCHANGED <<api, tv, restVars>>

NextValidate == \E t \in SampleTitles, accepts \in BOOLEAN : Validate(t, accepts)

SpecValidate == Init /\ [][NextValidate]_vars

---------------------------------------------------------------------------
(* answer: the three writes to the issue tracker *)

\* What the run does, in order: the calls it makes and the requests answer
\* sends (ok: the request did not raise).
Event(op, issue_number) ==
    [op |-> op, issue |-> issue_number, ok |-> TRUE, is_valid |-> FALSE,
     is_authorized |-> FALSE, label |-> "", message |-> NoMessage, data |-> <<>>]

ContactOpenCitations == Message("To make a deposit, please contact OpenCitations")

\* Mutant of Label: the validity is looked at first.
LabelValidFirst(is_valid, is_authorized) ==
    IF is_valid THEN "to be processed"
    ELSE IF ~is_authorized THEN "rejected"
    ELSE "invalid"

\* The label answer chooses
Label(is_valid, is_authorized) ==
    IF ~is_authorized THEN "rejected"
    ELSE IF ~is_valid THEN "invalid"
    ELSE "to be processed"

\* answer(is_valid, message, issue_number, is_authorized) is called: the
\* label is chosen.
AnswerCalled(is_valid, message, issue_number, is_authorized) ==
    /\ ans' = [status |-> "label", is_valid |-> is_valid, message |-> message,
               issue_number |-> issue_number, is_authorized |-> is_authorized,
               label |-> Label(is_valid, is_authorized)]
    /\ log' = Append(log, [Event("answer", issue_number) EXCEPT
                              !.is_valid = is_valid, !.is_authorized = is_authorized,
                              !.message = message])

\* Mutant of Request: the except clause logs the error and goes on.
RequestSwallowed(at, op, then, ok) ==
    /\ ans.status = at
    /\ ans' = [ans EXCEPT !.status = then]
    /\ log' = Append(log, [Event(op, ans.issue_number) EXCEPT
                              !.ok = ok, !.label = ans.label,
                              !.message = ans.message])

\* A request of answer: it is sent, and raise_for_status() raises
\* (RequestException, re-raised by answer) or not.
Request(at, op, then, ok) ==
    /\ ans.status = at
    /\ ans' = [ans EXCEPT !.status = IF ok THEN then ELSE "raised"]
    /\ log' = Append(log, [Event(op, ans.issue_number) EXCEPT
                              !.ok = ok, !.label = ans.label,
                              !.message = ans.message])

\* requests.post(f"{base_url}/{issue_number}/labels", json={"labels": [label]})
AddLabel(ok) ==
    /\ Request("label", "POST labels", "comment", ok)
    /\ UNCHANGED <<archiveVars, retryVars, validateVars, run, meta, conc, mrun>>

\* requests.post(f"{base_url}/{issue_number}/comments", json={"body": message})
AddComment(ok) ==
    /\ Request("comment", "POST comments", "close", ok)
    /\ UNCHANGED <<archiveVars, retryVars, validateVars, run, meta, conc, mrun>>

\* requests.patch(f"{base_url}/{issue_number}", json={"state": "closed"})
CloseIssue(ok) ==
    /\ Request("close", "PATCH closed", "returned", ok)
    /\ UNCHANGED <<archiveVars, retryVars, validateVars, run, meta, conc, mrun>>

\* The messages answer is called with
AnswerMessages ==
    {ContactOpenCitations, Thanks, MalformedTitle, MissingSeparator, EmptyBody}

\* answer is called on its own, with any arguments.
Answer(is_valid, message, issue_number, is_authorized) ==
    /\ ans.status = "none"
    /\ run.status = "idle"
    /\ log = <<>>
    /\ AnswerCalled(is_valid, message, issue_number, is_authorized)
    /\ UNCHANGED <<archiveVars, retryVars, validateVars, run, meta, conc, mrun>>

NextAnswer ==
    \/ \E is_valid \in BOOLEAN, message \in AnswerMessages,
          issue_number \in Reports, is_authorized \in BOOLEAN :
          Answer(is_valid, message, issue_number, is_authorized)
    \/ \E ok \in BOOLEAN : AddLabel(ok)
    \/ \E ok \in BOOLEAN : AddComment(ok)
    \/ \E ok \in BOOLEAN : CloseIssue(ok)

SpecAnswer == Init /\ [][NextAnswer]_vars

---------------------------------------------------------------------------
(* State machine of process_open_issues *)

\* get_data_to_store(issue_title, issue_body, created_at, had_primary_source,
\* user_id): the body must split in exactly two sections and each must hold
\* records; any exception becomes ValueError. (A piece of CSV text stands for
\* a header line and at least one row; had_primary_source, the URL of the
\* issue, is kept as the number of the issue.)
get_data_to_store(issue_title, issue_body, had_primary_source, user_id) ==
    LET sections == Split(issue_body.text)
    IN IF issue_body.none \/ Len(sections) # 2
       THEN [raised |-> TRUE, data |-> <<>>]
       ELSE IF Strip(sections[1]) = <<>> \/ Strip(sections[2]) = <<>>
       THEN [raised |-> TRUE, data |-> <<>>]
       ELSE [raised |-> FALSE,
             data |-> <<[title |-> issue_title,
                         metadata |-> Strip(sections[1]),
                         citations |-> Strip(sections[2]),
                         wasAttributedTo |-> user_id,
                         hadPrimarySource |-> had_primary_source]>>]

\* The issues get_open_issues returns. `user` is what get_user_id answers for
\* the author (an id of the safe list, another id, None), `outcome` what the
\* validator finds in the body; the identifier service accepts the
\* identifier. An issue of an author who is not on the safe list is the
\* plain one, its title and body are not looked at.
MalformedSample == [forms |-> <<"domain", "id">>, scheme |-> "doi"]
IssueKinds ==
    {[user |-> u, title |-> PlainTitle, body |-> PlainBody, outcome |-> "none"] :
        u \in {"other", "none"}}
    \cup {[user |-> "safe", title |-> MalformedSample, body |-> PlainBody,
           outcome |-> "none"]}
    \cup {[user |-> "safe", title |-> PlainTitle, body |-> Body(<<"csv">>),
           outcome |-> "none"]}
    \cup {[user |-> "safe", title |-> PlainTitle, body |-> b, outcome |-> o] :
            b \in {PlainBody, Body(<<"csv", Separator, "csv", Separator>>)},
            o \in {"none", "meta"}}
\* The lists of at most MaxIssues issues, numbered in the order of the list
FetchedIssues ==
    UNION {[1..n -> IssueKinds] : n \in 0..MaxIssues}
Numbered(issues) == [k \in 1..Len(issues) |-> issues[k] @@ [number |-> k]]

Issue == run.issues[run.i]
Running(pc) == run.status = "running" /\ run.pc = pc

\* The end of the loop body (and `continue`): the next issue, or the code
\* after the loop.
NextIssue(r) ==
    IF r.i < Len(r.issues) THEN [r EXCEPT !.i = @ + 1, !.pc = "get_user_id"]
    ELSE [r EXCEPT !.pc = "after_loop"]

\* issues = get_open_issues(); data_to_store = list(). get_open_issues
\* raises RuntimeError when its attempts are exhausted, and the outer except
\* clause re-raises it.
GetOpenIssues(issues, ok) ==
    /\ run.status = "idle"
    /\ ans.status = "none"
    /\ log = <<>>
    /\ ok \/ issues = <<>>
    /\ run' = IF ~ok THEN [run EXCEPT !.status = "raised"]
              ELSE NextIssue([run EXCEPT !.status = "running",
                                         !.issues = Numbered(issues)])
    /\ log' = Append(log, [Event("get_open_issues", 0) EXCEPT !.ok = ok])
    /\ UNCHANGED <<archiveVars, retryVars, validateVars, ans, meta, conc, mrun>>

\* user_id = get_user_id(username)
GetUserId ==
    /\ Running("get_user_id")
    /\ run' = [run EXCEPT !.user_id = Issue.user, !.pc = "is_in_safe_list"]
    /\ log' = Append(log, Event("get_user_id", Issue.number))
    /\ UNCHANGED <<archiveVars, retryVars, validateVars, ans, meta, conc, mrun>>

\* is_in_safe_list(user_id): str(user_id) in allowed_ids
is_in_safe_list(user_id) == user_id = "safe"

\* Mutant of IsInSafeList: the author is not looked up, every issue is
\* validated.
IsInSafeListSkipped ==
    /\ Running("is_in_safe_list")
    /\ run' = [run EXCEPT !.pc = "validate"]
    /\ log' = Append(log, Event("is_in_safe_list", Issue.number))
    /\ UNCHANGED <<archiveVars, retryVars, validateVars, ans, meta, conc, mrun>>

\* if not is_in_safe_list(user_id): answer(False, "To make a deposit, ...",
\* issue_number, is_authorized=False); continue
IsInSafeList ==
    /\ Running("is_in_safe_list")
    /\ IF is_in_safe_list(run.user_id)
       THEN /\ run' = [run EXCEPT !.pc = "validate"]
            /\ log' = Append(log, Event("is_in_safe_list", Issue.number))
            /\ ans' = ans
       ELSE /\ run' = [run EXCEPT !.pc = "answering"]
            /\ AnswerCalled(FALSE, ContactOpenCitations, Issue.number, FALSE)
    /\ UNCHANGED <<archiveVars, retryVars, validateVars, meta, conc, mrun>>

\* is_valid, message = validate(issue_title, issue_body, issue_number), the
\* cold tier failing at `fail` when the registration of the report triggers
\* a migration.
ValidateIssue ==
    /\ Running("validate")
    /\ \E title \in {_validate_title(Join(Issue.title.forms, Issue.title.scheme), TRUE)} :
       \E v0 \in {validate(index, files, clock, nextDep, title, Issue.body,
                           Issue.number, Issue.outcome, 0)} :
       \E fail \in (IF v0.add.triggered THEN 0..Len(v0.add.requests) ELSE {0}) :
       \E v \in {IF fail = 0 THEN v0
                 ELSE validate(index, files, clock, nextDep, title, Issue.body,
                               Issue.number, Issue.outcome, fail)} :
          /\ Validated(Issue.title, TRUE, Issue.body, Issue.number, Issue.outcome,
                       fail, v)
          /\ run' = IF v.raised THEN [run EXCEPT !.status = "raised"]
                    ELSE [run EXCEPT !.is_valid = v.valid, !.message = v.msg,
                                     !.pc = "answer"]
          /\ log' = Append(log, [Event("validate", Issue.number) EXCEPT
                                    !.ok = ~v.raised, !.is_valid = v.valid,
                                    !.message = v.msg])
    /\ UNCHANGED <<api, tv, ans, meta, conc, mrun>>

\* Mutant of AnswerVerdict: only a valid issue is answered.
AnswerVerdictOnlyValid ==
    /\ Running("answer")
    /\ IF run.is_valid
       THEN /\ run' = [run EXCEPT !.pc = "answering"]
            /\ AnswerCalled(run.is_valid, run.message, Issue.number, TRUE)
       ELSE /\ run' = NextIssue(run)
            /\ UNCHANGED <<ans, log>>
    /\ UNCHANGED <<archiveVars, retryVars, validateVars, meta, conc, mrun>>

\* answer(is_valid, message, issue_number, is_authorized=True)
AnswerVerdict ==
    /\ Running("answer")
    /\ run' = [run EXCEPT !.pc = "answering"]
    /\ AnswerCalled(run.is_valid, run.message, Issue.number, TRUE)
    /\ UNCHANGED <<archiveVars, retryVars, validateVars, meta, conc, mrun>>

\* answer has returned: `continue` for an author who is not on the safe
\* list, `if is_valid:` otherwise.
AnswerReturned ==
    /\ Running("answering")
    /\ ans.status = "returned"
    /\ run' = IF ans.is_authorized /\ run.is_valid
              THEN [run EXCEPT !.pc = "get_data_to_store"]
              ELSE NextIssue(run)
    /\ ans' = NoAnswer
    /\ UNCHANGED <<archiveVars, retryVars, validateVars, log, meta, conc, mrun>>

\* answer has raised: the outer except clause prints the error and re-raises.
AnswerRaised ==
    /\ Running("answering")
    /\ ans.status = "raised"
    /\ run' = [run EXCEPT !.status = "raised"]
    /\ ans' = NoAnswer
    /\ UNCHANGED <<archiveVars, retryVars, validateVars, log, meta, conc, mrun>>

\* try: issue_data = get_data_to_store(...); data_to_store.append(issue_data)
\* except Exception: continue
GetDataToStore ==
    /\ Running("get_data_to_store")
    /\ \E r \in {get_data_to_store(Issue.title, Issue.body, Issue.number, run.user_id)} :
          /\ run' = NextIssue([run EXCEPT !.data_to_store = @ \o r.data])
          /\ log' = Append(log, [Event("get_data_to_store", Issue.number) EXCEPT
                                    !.ok = ~r.raised])
    /\ UNCHANGED <<archiveVars, retryVars, validateVars, ans, meta, conc, mrun>>

\* Mutant of Deposit: the aggregate is deposited even when it is empty.
DepositAlways(ok) ==
    /\ Running("after_loop")
    /\ run' = [run EXCEPT !.status = IF ok THEN "done" ELSE "raised"]
    /\ log' = Append(log, [Event("deposit_on_zenodo", 0) EXCEPT
                              !.ok = ok, !.data = run.data_to_store])
    /\ UNCHANGED <<archiveVars, retryVars, validateVars, ans, meta, conc, mrun>>

\* Mutant of Deposit: a failed deposit is logged and the run ends normally.
DepositSwallowed(ok) ==
    /\ Running("after_loop")
    /\ IF run.data_to_store # <<>>
       THEN /\ run' = [run EXCEPT !.status = "done"]
            /\ log' = Append(log, [Event("deposit_on_zenodo", 0) EXCEPT
                                      !.ok = ok, !.data = run.data_to_store])
       ELSE /\ ok
            /\ run' = [run EXCEPT !.status = "done"]
            /\ log' = log
    /\ UNCHANGED <<archiveVars, retryVars, validateVars, ans, meta, conc, mrun>>

\* if data_to_store: try: deposit_on_zenodo(data_to_store) except Exception:
\* raise; else nothing is deposited.
Deposit(ok) ==
    /\ Running("after_loop")
    /\ IF run.data_to_store # <<>>
       THEN /\ run' = [run EXCEPT !.status = IF ok THEN "done" ELSE "raised"]
            /\ log' = Append(log, [Event("deposit_on_zenodo", 0) EXCEPT
                                      !.ok = ok, !.data = run.data_to_store])
       ELSE /\ ok
            /\ run' = [run EXCEPT !.status = "done"]
            /\ log' = log
    /\ UNCHANGED <<archiveVars, retryVars, validateVars, ans, meta, conc, mrun>>

NextProcess ==
    \/ \E issues \in FetchedIssues, ok \in BOOLEAN : GetOpenIssues(issues, ok)
    \/ GetUserId
    \/ IsInSafeList
    \/ ValidateIssue
    \/ AnswerVerdict
    \/ \E ok \in BOOLEAN : AddLabel(ok)
    \/ \E ok \in BOOLEAN : AddComment(ok)
    \/ \E ok \in BOOLEAN : CloseIssue(ok)
    \/ AnswerReturned
    \/ AnswerRaised
    \/ GetDataToStore
    \/ \E ok \in BOOLEAN : Deposit(ok)

SpecProcess == Init /\ [][NextProcess]_vars

---------------------------------------------------------------------------
(* process_open_issues on an issue of a trusted author, get_user_id making *)
(* its requests                                                           *)

\* An open issue whose author is on the safe list: `user` is the id GitHub
\* holds for the author.
TrustedIssue ==
    [user |-> "safe", title |-> PlainTitle, body |-> PlainBody, outcome |-> "none"]

\* The run has fetched the issue and reaches user_id = get_user_id(username):
\* get_user_id is called.
LookupAuthor ==
    /\ run.status = "idle"
    /\ api.status = "idle"
    /\ log = <<>>
    /\ run' = NextIssue([run EXCEPT !.status = "running",
                                    !.issues = Numbered(<<TrustedIssue>>)])
    /\ api' = Started("get_user_id")
    /\ log' = Append(log, Event("get_open_issues", 0))
    /\ UNCHANGED <<archiveVars, validateVars, ans, meta, conc, mrun>>

\* get_user_id has returned the id of the author, or None.
LookupReturned ==
    /\ Running("get_user_id")
    /\ api.status = "returned"
    /\ run' = [run EXCEPT !.user_id = IF api.result = "id" THEN Issue.user ELSE "none",
                          !.pc = "is_in_safe_list"]
    /\ log' = Append(log, Event("get_user_id", Issue.number))
    /\ UNCHANGED <<archiveVars, retryVars, validateVars, ans, meta, conc, mrun>>

\* get_user_id has raised (an exception neither of its except clauses
\* catches): the outer except clause of the run re-raises it.
LookupRaised ==
    /\ Running("get_user_id")
    /\ api.status = "raised"
    /\ run' = [run EXCEPT !.status = "raised"]
    /\ log' = Append(log, [Event("get_user_id", Issue.number) EXCEPT !.ok = FALSE])
    /\ UNCHANGED <<archiveVars, retryVars, validateVars, ans, meta, conc, mrun>>

NextAuthor ==
    \/ LookupAuthor
    \/ \E r \in Responses : Attempt(r)
    \/ LookupReturned
    \/ LookupRaised
    \/ IsInSafeList
    \/ ValidateIssue
    \/ AnswerVerdict
    \/ \E ok \in BOOLEAN : AddLabel(ok)
    \/ \E ok \in BOOLEAN : AddComment(ok)
    \/ \E ok \in BOOLEAN : CloseIssue(ok)
    \/ AnswerReturned
    \/ AnswerRaised
    \/ GetDataToStore
    \/ \E ok \in BOOLEAN : Deposit(ok)

SpecAuthor == Init /\ [][NextAuthor]_vars

---------------------------------------------------------------------------
(* store_meta_input: the records of the issues, written in files of 1000 *)

\* A list of records is kept as the runs of rows it is made of: the run
\* [issue |-> n, from |-> a, to |-> b] is rows a..b of a section of issue n,
\* in order. Runs are never empty, and two runs that follow each other in
\* the same section are one run.
Run(n, a, b) == [issue |-> n, from |-> a, to |-> b]
RunLen(r) == r.to - r.from + 1
\* len(records)
RECURSIVE Length(_)
Length(q) == IF q = <<>> THEN 0 ELSE RunLen(Head(q)) + Length(Tail(q))
\* a + b (list.extend)
Extend(a, b) ==
    IF a = <<>> \/ b = <<>> THEN a \o b
    ELSE LET x == a[Len(a)]
             y == Head(b)
         IN IF x.issue = y.issue /\ x.to + 1 = y.from
            THEN SubSeq(a, 1, Len(a) - 1) \o <<Run(x.issue, x.from, y.to)>> \o Tail(b)
            ELSE a \o b
\* records[:k]
RECURSIVE Take(_, _)
Take(q, k) ==
    IF k = 0 \/ q = <<>> THEN <<>>
    ELSE IF RunLen(Head(q)) <= k
    THEN <<Head(q)>> \o Take(Tail(q), k - RunLen(Head(q)))
    ELSE <<Run(Head(q).issue, Head(q).from, Head(q).from + k - 1)>>
\* records[k:]
RECURSIVE Drop(_, _)
Drop(q, k) ==
    IF k = 0 \/ q = <<>> THEN q
    ELSE IF RunLen(Head(q)) <= k THEN Drop(Tail(q), k - RunLen(Head(q)))
    ELSE <<Run(Head(q).issue, Head(q).from + k, Head(q).to)>> \o Tail(q)

\* The records one file holds at most
FileSize == 1000

\* dump_csv(data_to_store, os.path.join(dir, f"{counter}.csv")): the file is
\* opened for writing and the records are written.
dump_csv(writes, dir, counter, data_to_store) ==
    Append(writes, [dir |-> dir, name |-> counter, records |-> data_to_store])

\* Mutant of Flush: one file is written for each pass of the issue loop.
FlushOnce(to_store, counter, writes, dir) ==
    IF Length(to_store) >= FileSize
    THEN [to_store |-> Drop(to_store, FileSize), counter |-> counter + 1,
          writes |-> dump_csv(writes, dir, counter, Take(to_store, FileSize))]
    ELSE [to_store |-> to_store, counter |-> counter, writes |-> writes]

\* Mutant of Flush: the rest of the list is read from the row after the
\* thousandth.
RECURSIVE FlushSkipping(_, _, _, _)
FlushSkipping(to_store, counter, writes, dir) ==
    IF Length(to_store) >= FileSize
    THEN FlushSkipping(Drop(to_store, FileSize + 1), counter + 1,
                       dump_csv(writes, dir, counter, Take(to_store, FileSize)), dir)
    ELSE [to_store |-> to_store, counter |-> counter, writes |-> writes]

\* while len(to_store) >= 1000: dump_csv(to_store[:1000], f"{counter}.csv");
\* to_store = to_store[1000:]; counter += 1
RECURSIVE Flush(_, _, _, _)
Flush(to_store, counter, writes, dir) ==
    IF Length(to_store) >= FileSize
    THEN Flush(Drop(to_store, FileSize), counter + 1,
               dump_csv(writes, dir, counter, Take(to_store, FileSize)), dir)
    ELSE [to_store |-> to_store, counter |-> counter, writes |-> writes]

\* The issues store_meta_input is given. An issue is a dict that may lack
\* the "body" key; its body is None or a string, kept as its sections (what
\* split("===###===@@@===") gives), and a section as what strip() and
\* csv.DictReader make of it:
\*   empty   nothing but whitespace
\*   bad     csv.Error is raised
\*   csv     a header line and `rows` rows (0: the header alone)
Section(text, rows) == [text |-> text, rows |-> rows]
Csv(rows) == Section("csv", rows)
StoredIssue(body, sections) == [body |-> body, sections |-> sections]
\* The numbers of rows of a section: one row, and one row less than, exactly
\* and one row more than a number of full files
Rows == {1} \cup {FileSize * k + d : k \in 1..MaxBatches, d \in {-1, 0, 1}}
WellFormed ==
    {StoredIssue("str", <<Csv(m), Csv(c)>>) : m \in Rows, c \in {1, FileSize}}
Malformed ==
    {StoredIssue("missing", <<>>), StoredIssue("None", <<>>),
     StoredIssue("str", <<Csv(1)>>),
     StoredIssue("str", <<Csv(1), Csv(1), Csv(1)>>),
     StoredIssue("str", <<Section("empty", 0), Csv(1)>>),
     StoredIssue("str", <<Csv(1), Section("empty", 0)>>),
     StoredIssue("str", <<Section("bad", 0), Csv(1)>>),
     StoredIssue("str", <<Csv(1), Section("bad", 0)>>),
     StoredIssue("str", <<Csv(0), Csv(1)>>),
     StoredIssue("str", <<Csv(1), Csv(0)>>)}
StoredIssues == UNION {[1..n -> WellFormed \cup Malformed] : n \in 0..MaxStored}

\* list(csv.DictReader(io.StringIO(section))) for the section of issue n
Records(n, section) == IF section.rows = 0 THEN <<>> ELSE <<Run(n, 1, section.rows)>>

\* One pass of `for issue in issues:` on the state m of the call, for issue
\* number n. The except clause catches KeyError and csv.Error; any other
\* exception leaves store_meta_input.
Pass(m, n, issue) ==
    LET skip == m
        Leave(e) == [m EXCEPT !.status = "raised", !.error = e]
        metadata == Records(n, issue.sections[1])
        citations == Records(n, issue.sections[2])
        meta_flush == Flush(Extend(m.metadata_to_store, metadata),
                            m.metadata_counter, m.writes, "metadata")
        cits_flush == Flush(Extend(m.citations_to_store, citations),
                            m.citations_counter, meta_flush.writes, "citations")
    IN IF issue.body = "missing" THEN skip                 \* KeyError, caught
       ELSE IF issue.body = "None" THEN Leave("TypeError") \* `in` on None
       ELSE IF Len(issue.sections) = 1 THEN skip           \* no separator
       ELSE IF Len(issue.sections) # 2 THEN Leave("ValueError") \* unpacking
       ELSE IF issue.sections[1].text = "empty" THEN skip
       ELSE IF issue.sections[2].text = "empty" THEN skip
       ELSE IF issue.sections[1].text = "bad" THEN skip    \* csv.Error, caught
       ELSE IF metadata = <<>> THEN skip
       ELSE IF issue.sections[2].text = "bad" THEN skip    \* csv.Error, caught
       ELSE IF citations = <<>> THEN skip
       ELSE [m EXCEPT !.metadata_to_store = meta_flush.to_store,
                      !.metadata_counter = meta_flush.counter,
                      !.citations_to_store = cits_flush.to_store,
                      !.citations_counter = cits_flush.counter,
                      !.writes = cits_flush.writes]

\* store_meta_input(issues) is called: the directories are made, the lists
\* and the counters are initialised.
StoreMetaInput(issues) ==
    /\ meta.status = "none"
    /\ meta' = [NoMeta EXCEPT !.status = "loop", !.issues = issues, !.i = 1]
    /\ UNCHANGED <<archiveVars, retryVars, validateVars, processVars, conc, mrun>>

\* The body of the loop runs for the next issue.
StoreIssue ==
    /\ meta.status = "loop"
    /\ meta.i <= Len(meta.issues)
    /\ meta' = [Pass(meta, meta.i, meta.issues[meta.i]) EXCEPT !.i = @ + 1]
    /\ UNCHANGED <<archiveVars, retryVars, validateVars, processVars, conc, mrun>>

\* "Write any remaining records": what is left of each list is written in
\* one more file.
Remaining(m) ==
    LET w1 == IF m.metadata_to_store # <<>>
              THEN dump_csv(m.writes, "metadata", m.metadata_counter,
                            m.metadata_to_store)
              ELSE m.writes
        w2 == IF m.citations_to_store # <<>>
              THEN dump_csv(w1, "citations", m.citations_counter,
                            m.citations_to_store)
              ELSE w1
    IN [m EXCEPT !.status = "returned", !.writes = w2]

\* After the loop: the remaining records are written and the call returns.
WriteRemaining ==
    /\ meta.status = "loop"
    /\ meta.i > Len(meta.issues)
    /\ meta' = Remaining(meta)
    /\ UNCHANGED <<archiveVars, retryVars, validateVars, processVars, conc, mrun>>

NextStore ==
    \/ \E issues \in StoredIssues : StoreMetaInput(issues)
    \/ StoreIssue
    \/ WriteRemaining

SpecStore == Init /\ [][NextStore]_vars

---------------------------------------------------------------------------
(* State machine of process_meta_issues: the run over the closed issues *)

\* The closed issues labelled "to be processed" that get_closed_issues
\* returns: one with one file of records in each directory, one with two
\* files of metadata, one without the separator, one with three sections,
\* one whose body is None. An issue has the number of its place in the list.
ClosedIssueKinds ==
    {StoredIssue("str", <<Csv(1), Csv(1)>>),
     StoredIssue("str", <<Csv(FileSize + 1), Csv(1)>>),
     StoredIssue("str", <<Csv(1)>>),
     StoredIssue("str", <<Csv(1), Csv(1), Csv(1)>>),
     StoredIssue("None", <<>>)}
ClosedIssues == UNION {[1..n -> ClosedIssueKinds] : n \in 0..MaxClosed}

\* What a write request to the issue tracker gives: a success status, another
\* status, or requests.RequestException.
TrackerAnswers == {"success", "error status", "RequestException"}

MetaIssue == mrun.issues[mrun.i]
MetaRunning(pc) == mrun.status = "running" /\ mrun.pc = pc
MetaEvent(op, ok) ==
    [op |-> op, issue |-> mrun.i, ok |-> ok, metadata_dir |-> mrun.metadata_dir,
     citations_dir |-> mrun.citations_dir, writes |-> <<>>]

\* open(path, "w") and the records written: the file of that name is
\* created or replaced, the other files of the directory stay.
RECURSIVE WriteFiles(_, _, _)
WriteFiles(dir, writes, which) ==
    IF writes = <<>> THEN dir
    ELSE LET w == Head(writes) IN
         IF w.dir # which THEN WriteFiles(dir, Tail(writes), which)
         ELSE WriteFiles([x \in (DOMAIN dir) \cup {w.name} |->
                             IF x = w.name THEN w.records ELSE dir[x]],
                         Tail(writes), which)

\* store_meta_input([issue]) for the issue of number n
store_meta_input(n, issue) ==
    LET m == Pass(NoMeta, n, issue)
    IN IF m.status = "raised" THEN m ELSE Remaining(m)

\* process_meta_issues is called: the configuration is loaded, the
\* triplestore is checked (not responsive: return), get_closed_issues is
\* called (it raises RuntimeError when its attempts are exhausted; no issue:
\* return).
GetClosedIssues(responsive, issues, ok) ==
    /\ mrun.status = "idle"
    /\ ~(responsive /\ ok) => issues = <<>>
    /\ ~responsive => ok
    /\ mrun' = IF ~ok THEN [mrun EXCEPT !.status = "raised"]
               ELSE IF issues = <<>> THEN [mrun EXCEPT !.status = "done"]
               ELSE [mrun EXCEPT !.status = "running", !.pc = "store_meta_input",
                                 !.issues = issues, !.i = 1,
                                 !.labels = [k \in 1..Len(issues) |-> {"to be processed"}]]
    /\ UNCHANGED <<archiveVars, retryVars, validateVars, processVars, meta, conc>>

\* process_single_issue: store_meta_input([issue]). An exception that leaves
\* store_meta_input leaves process_single_issue too, and process_meta_issues
\* logs it and re-raises.
StoreSingleIssue ==
    /\ MetaRunning("store_meta_input")
    /\ \E m \in {store_meta_input(mrun.i, MetaIssue)} :
          mrun' = [mrun EXCEPT
                     !.status = IF m.status = "raised" THEN "raised" ELSE @,
                     !.pc = "run_meta_process",
                     !.metadata_dir = WriteFiles(@, m.writes, "metadata"),
                     !.citations_dir = WriteFiles(@, m.writes, "citations"),
                     !.log = Append(@, [MetaEvent("store_meta_input", m.status # "raised")
                                           EXCEPT !.writes = m.writes])]
    /\ UNCHANGED <<archiveVars, retryVars, validateVars, processVars, meta, conc>>

\* process_single_issue: run_meta_process(settings with input_csv_dir =
\* metadata_dir) returns (return True) or raises (except Exception: return
\* False).
RunMetaProcess(ok) ==
    /\ MetaRunning("run_meta_process")
    /\ mrun' = [mrun EXCEPT !.pc = "delete_label", !.success = ok,
                            !.log = Append(@, MetaEvent("run_meta_process", ok))]
    /\ UNCHANGED <<archiveVars, retryVars, validateVars, processVars, meta, conc>>

\* update_issue_labels: requests.delete(".../labels/to%20be%20processed"). A
\* status other than 200 is logged; RequestException is re-raised.
DeleteLabel(answer) ==
    /\ MetaRunning("delete_label")
    /\ mrun' = [mrun EXCEPT
                  !.status = IF answer = "RequestException" THEN "raised" ELSE @,
                  !.pc = "add_label",
                  !.labels[mrun.i] = IF answer = "success"
                                     THEN @ \ {"to be processed"} ELSE @,
                  !.log = Append(@, MetaEvent("requests.delete", answer = "success"))]
    /\ UNCHANGED <<archiveVars, retryVars, validateVars, processVars, meta, conc>>

\* new_label = "done" if success else "oc meta error"
new_label(success) == IF success THEN "done" ELSE "oc meta error"

\* update_issue_labels: requests.post(".../labels", json={"labels":
\* [new_label]}). A status other than 200 and 201 is logged; RequestException
\* is re-raised. Then update_issue_labels returns and the loop of
\* process_meta_issues takes the next issue.
AddNewLabel(answer) ==
    /\ MetaRunning("add_label")
    /\ mrun' = [mrun EXCEPT
                  !.status = IF answer = "RequestException" THEN "raised"
                             ELSE IF mrun.i = Len(mrun.issues) THEN "done" ELSE @,
                  !.pc = IF answer = "RequestException" THEN @ ELSE "store_meta_input",
                  !.i = IF answer = "RequestException" \/ mrun.i = Len(mrun.issues)
                        THEN @ ELSE @ + 1,
                  !.labels[mrun.i] = IF answer = "success"
                                     THEN @ \cup {new_label(mrun.success)} ELSE @,
                  !.log = Append(@, MetaEvent("requests.post", answer = "success"))
                          \o (IF answer = "RequestException" THEN <<>>
                              ELSE <<MetaEvent("update_issue_labels", mrun.success)>>)]
    /\ UNCHANGED <<archiveVars, retryVars, validateVars, processVars, meta, conc>>

NextMetaRun ==
    \/ \E responsive \in BOOLEAN, issues \in ClosedIssues, ok \in BOOLEAN :
          GetClosedIssues(responsive, issues, ok)
    \/ StoreSingleIssue
    \/ \E ok \in BOOLEAN : RunMetaProcess(ok)
    \/ \E answer \in TrackerAnswers : DeleteLabel(answer)
    \/ \E answer \in TrackerAnswers : AddNewLabel(answer)

SpecMetaRun == Init /\ [][NextMetaRun]_vars

---------------------------------------------------------------------------
(* Two processes calling add_report on the same index file *)

Other(p) == CHOOSE q \in Processes : q # p
Proc(p) == conc.proc[p]
\* The process is inside its add_report call.
InCall(p) == Proc(p).pc \notin {"load", "done"}

\* Mutant of Free: a lock around add_report, a process starts its call only
\* when the other is not inside its own.
FreeLocked(p) == InCall(p) \/ ~InCall(Other(p))

\* Nothing in add_report or archive_reports waits for another process: a
\* process takes its next step whatever the other one is doing.
Free(p) == TRUE

\* A step of process p that leaves it as `next` and the shared state as
\* given; the step overlaps the other call when the other process is inside
\* its call.
Stepped(p, next, file, dir, registered, uploads, published) ==
    conc' = [conc EXCEPT !.proc[p] = next, !.file = file, !.dir = dir,
                         !.registered = registered, !.uploads = uploads,
                         !.published = published,
                         !.overlapped = @ \/ InCall(Other(p))]
Moved(p, next) ==
    Stepped(p, next, conc.file, conc.dir, conc.registered, conc.uploads,
            conc.published)
At(p, pc) == conc.status = "running" /\ Proc(p).pc = pc /\ Free(p)

\* The index holds max_reports_before_archive - 1 hot reports with their
\* files; each process has written the file of the report it is about to
\* register (the file's creation time is its name).
ConcStart ==
    /\ conc.status = "none"
    /\ LET old == 1..(max_reports_before_archive - 1)
           new(p) == max_reports_before_archive - 1 + p
       IN conc' = [NoConc EXCEPT
                     !.status = "running",
                     !.file = [InitIndex EXCEPT !.github_reports =
                                  [n \in old |-> [key |-> n, val |-> GithubUrl(1)]]],
                     !.dir = [n \in 1..(max_reports_before_archive + 1) |-> n],
                     !.proc = [p \in Processes |-> [NoProcess EXCEPT !.name = new(p)]]]
    /\ UNCHANGED <<archiveVars, retryVars, validateVars, processVars, meta, mrun>>

\* add_report: index_data = self._load_index()
ConcLoad(p) ==
    /\ At(p, "load")
    /\ Moved(p, [Proc(p) EXCEPT !.pc = "save", !.index_data = conc.file])
    /\ UNCHANGED <<archiveVars, retryVars, validateVars, processVars, meta, mrun>>

\* add_report: index_data["github_reports"][report_filename] = github_url;
\* self._save_index(index_data)
ConcSave(p) ==
    /\ At(p, "save")
    /\ LET index_data == [Proc(p).index_data EXCEPT !.github_reports =
                             DictSet(@, Proc(p).name, GithubUrl(1))]
       IN Stepped(p, [Proc(p) EXCEPT !.pc = "check", !.index_data = index_data],
                  index_data, conc.dir, conc.registered \cup {Proc(p).name},
                  conc.uploads, conc.published)
    /\ UNCHANGED <<archiveVars, retryVars, validateVars, processVars, meta, mrun>>

\* add_report: if len(index_data["github_reports"]) >= max_reports_before_archive:
\* self.archive_reports()
ConcCheck(p) ==
    /\ At(p, "check")
    /\ Moved(p, [Proc(p) EXCEPT !.pc = IF NeedsArchive(Proc(p).index_data)
                                       THEN "archive" ELSE "done"])
    /\ UNCHANGED <<archiveVars, retryVars, validateVars, processVars, meta, mrun>>

\* archive_reports: index_data = self._load_index(); the oldest hot reports
\* are selected; return None when there is none.
ConcSelect(p) ==
    /\ At(p, "archive")
    /\ LET sel == ReportsToArchive(conc.file, conc.dir)
       IN Moved(p, [Proc(p) EXCEPT !.pc = IF sel = <<>> THEN "done" ELSE "create",
                                   !.index_data = conc.file, !.sel = sel])
    /\ UNCHANGED <<archiveVars, retryVars, validateVars, processVars, meta, mrun>>

\* archive_reports: create_deposition_resource(...)
ConcCreate(p) ==
    /\ At(p, "create")
    /\ Moved(p, [Proc(p) EXCEPT !.pc = "upload", !.dep = p, !.k = 1])
    /\ UNCHANGED <<archiveVars, retryVars, validateVars, processVars, meta, mrun>>

\* archive_reports: one pass of the upload loop; a report whose file is gone
\* is skipped.
ConcUpload(p) ==
    /\ At(p, "upload")
    /\ LET report == Proc(p).sel[Proc(p).k]
           next == [Proc(p) EXCEPT !.k = IF @ < Len(Proc(p).sel) THEN @ + 1 ELSE 1,
                                   !.pc = IF Proc(p).k < Len(Proc(p).sel)
                                          THEN "upload" ELSE "publish"]
       IN Stepped(p, next, conc.file, conc.dir, conc.registered,
                  IF report \in DOMAIN conc.dir
                  THEN conc.uploads \cup {[by |-> p, report |-> report]}
                  ELSE conc.uploads,
                  conc.published)
    /\ UNCHANGED <<archiveVars, retryVars, validateVars, processVars, meta, mrun>>

\* archive_reports: the deposition is published.
ConcPublish(p) ==
    /\ At(p, "publish")
    /\ Stepped(p, [Proc(p) EXCEPT !.pc = "update", !.k = 1], conc.file, conc.dir,
               conc.registered, conc.uploads, conc.published \cup {p})
    /\ UNCHANGED <<archiveVars, retryVars, validateVars, processVars, meta, mrun>>

\* archive_reports: one pass of the "Update index" loop on the process's
\* copy; the file of the report is removed.
ConcUpdate(p) ==
    /\ At(p, "update")
    /\ LET report == Proc(p).sel[Proc(p).k]
           upd == UpdateIndex(Proc(p).index_data, conc.dir, <<report>>, Proc(p).dep)
           next == [Proc(p) EXCEPT !.index_data = upd.index,
                                   !.k = IF @ < Len(Proc(p).sel) THEN @ + 1 ELSE 1,
                                   !.pc = IF Proc(p).k < Len(Proc(p).sel)
                                          THEN "update" ELSE "archived"]
       IN Stepped(p, next, conc.file, upd.files, conc.registered, conc.uploads,
                  conc.published)
    /\ UNCHANGED <<archiveVars, retryVars, validateVars, processVars, meta, mrun>>

\* archive_reports: index_data["last_archive"] = ...; self._save_index(index_data)
ConcArchived(p) ==
    /\ At(p, "archived")
    /\ LET index_data == [Proc(p).index_data EXCEPT !.last_archive = 1]
       IN Stepped(p, [Proc(p) EXCEPT !.pc = "done", !.index_data = index_data],
                  index_data, conc.dir, conc.registered, conc.uploads,
                  conc.published)
    /\ UNCHANGED <<archiveVars, retryVars, validateVars, processVars, meta, mrun>>

ConcStep(p) ==
    \/ ConcLoad(p)
    \/ ConcSave(p)
    \/ ConcCheck(p)
    \/ ConcSelect(p)
    \/ ConcCreate(p)
    \/ ConcUpload(p)
    \/ ConcPublish(p)
    \/ ConcUpdate(p)
    \/ ConcArchived(p)

NextConc ==
    \/ ConcStart
    \/ \E p \in Processes : ConcLoad(p)
    \/ \E p \in Processes : ConcSave(p)
    \/ \E p \in Processes : ConcCheck(p)
    \/ \E p \in Processes : ConcSelect(p)
    \/ \E p \in Processes : ConcCreate(p)
    \/ \E p \in Processes : ConcUpload(p)
    \/ \E p \in Processes : ConcPublish(p)
    \/ \E p \in Processes : ConcUpdate(p)
    \/ \E p \in Processes : ConcArchived(p)

SpecConc == Init /\ [][NextConc]_vars

---------------------------------------------------------------------------
(* Properties of the ArchiveManager *)

\* A call of add_report or archive_reports has just returned or raised.
ArchiveCalled(op) == calls' = calls + 1 /\ last'.op = op

\* The hot names archive_reports loads: add_report saves its entry first.
LoadedHot == IF last'.op = "add_report" THEN Hot \cup {last'.name} ELSE Hot

\* C1: every name of the index is in exactly one of github_reports and
\* zenodo_reports after any call, and a name that is cold never becomes hot
\* again, add_report being called with a cold name included.
C1_ExactlyOneTier ==
    [][(Hot' \cap Cold' = {}) /\ (Cold \cap Hot' = {})]_vars

\* C2: when the create request, an upload or the publish request fails, the
\* call raises at that request (none is repeated, none follows), and the index
\* and the report files are what they were when archive_reports started.
C2_FailureLeavesIndex ==
    [][(\/ ArchiveCalled("archive_reports")
        \/ (ArchiveCalled("add_report") /\ last'.triggered))
       /\ last'.fail > 0
       => /\ last'.raised
          /\ Len(last'.requests) = last'.fail
          /\ \A i, j \in 1..Len(last'.requests) :
                last'.requests[i] = last'.requests[j] => i = j
          /\ KeySet(index'.github_reports) = LoadedHot
          /\ \A n \in Hot : DictGet(index'.github_reports, n) =
                IF last'.op = "add_report" /\ n = last'.name
                THEN GithubUrl(last'.url) ELSE DictGet(index.github_reports, n)
          /\ index'.zenodo_reports = index.zenodo_reports
          /\ index'.last_archive = index.last_archive
          /\ files' = files]_vars

\* C2 witness: archive_reports raised at the publish request, after an upload.
C2_Witness ==
    /\ last.op = "archive_reports"
    /\ last.raised
    /\ Len(last.requests) >= 3
    /\ last.requests[Len(last.requests)].req = "publish"

Migrated ==
    /\ ArchiveCalled("archive_reports") \/ ArchiveCalled("add_report")
    /\ last'.published

\* The selection of a successful migration: min(archive_batch_size, hot
\* entries) hot names, none later than an unselected one (a missing file
\* counting as time 0).
SelectedOldest(sel) ==
    /\ sel \subseteq LoadedHot
    /\ Cardinality(sel) = Min(archive_batch_size, Cardinality(LoadedHot))
    /\ \A s_ \in sel, u \in LoadedHot \ sel : CtimeKey(files, s_) <= CtimeKey(files, u)

\* The effect of a successful migration that moves the names in `moved`.
MovedExactly(moved) ==
    /\ Hot' = LoadedHot \ moved
    /\ Cold' = Cold \cup moved
    /\ \A m \in moved : DictGet(index'.zenodo_reports, m) = DoiUrl(nextDep)
    /\ DOMAIN files' = (DOMAIN files) \ moved
    /\ index'.last_archive = clock
    /\ \A n \in Hot' : DictGet(index'.github_reports, n) =
          IF last'.op = "add_report" /\ n = last'.name
          THEN GithubUrl(last'.url) ELSE DictGet(index.github_reports, n)
    /\ \A n \in Cold \ moved :
          DictGet(index'.zenodo_reports, n) = DictGet(index.zenodo_reports, n)
    /\ \A n \in DOMAIN files' : files'[n] = files[n]

\* C4 as stated: a successful archive_reports selects the oldest
\* min(archive_batch_size, hot entries) hot entries, missing files first, and
\* moves every selected entry to cold, deletes its file and sets last_archive;
\* nothing else changes.
C4_MovesEverySelected ==
    [][Migrated => /\ SelectedOldest(SeqSet(last'.selected))
                   /\ MovedExactly(SeqSet(last'.selected))]_vars

\* C4 amended: as C4, but the entries moved to cold are the selected entries
\* whose file exists; a selected entry whose file is missing stays hot,
\* unchanged.
C4_MovesSelectedWithFile ==
    [][Migrated => /\ SelectedOldest(SeqSet(last'.selected))
                   /\ MovedExactly(SeqSet(last'.selected) \cap DOMAIN files)]_vars

\* C4 witness: a migration succeeded that selected one entry with a file
\* (now cold) and one without (still hot).
C4_Witness ==
    /\ last.published
    /\ \E a, b \in SeqSet(last.selected) :
          /\ a \in Hot /\ a \notin Cold
          /\ b \in Cold /\ b \notin Hot

\* C5: get_report_url returns the registered live URL of a hot name, the
\* direct URL of the archived file of a cold name, None for a name in neither
\* set.
C5_LocateReturnsReference ==
    \A name \in Reports :
        /\ (name \in Hot /\ name \notin Cold)
              => get_report_url(index, name) = DictGet(index.github_reports, name)
        /\ (name \in Cold /\ name \notin Hot)
              => \E dep \in 1..nextDep : get_report_url(index, name) = FileUrl(dep, name)
        /\ name \notin Hot \cup Cold => get_report_url(index, name) = NoneUrl

\* C6: archive_reports on an empty hot set returns None, makes no cold-tier
\* request and leaves the index (and the files) unchanged.
C6_EmptyHotNoEffect ==
    [][ArchiveCalled("archive_reports") /\ Hot = {}
       => /\ last'.ret = NoneUrl
          /\ ~last'.raised
          /\ last'.requests = <<>>
          /\ index' = index
          /\ files' = files
          /\ nextDep' = nextDep]_vars

\* C6 witness: archive_reports has run on an index with cold entries and no
\* hot entry.
C6_Witness ==
    /\ last.op = "archive_reports"
    /\ last.selected = <<>>
    /\ Hot = {}
    /\ Cold # {}

---------------------------------------------------------------------------
(* Properties of the GitHub API readers *)

Ended == api.status \in {"returned", "raised"}
LastResponse == api.hist[Len(api.hist)]
AllKinds(kinds) == \A i \in 1..Len(api.hist) : api.hist[i].kind \in kinds
\* The results: the issues or the user id read from a 200 response; the empty
\* list or None.
Success(fn) == IF fn = "get_user_id" THEN "id" ELSE "issues"
Empty(fn) == IF fn = "get_user_id" THEN "None" ELSE "[]"
\* The time slept after the i-th response.
RECURSIVE SumSeq(_)
SumSeq(q) == IF q = <<>> THEN 0 ELSE Head(q) + SumSeq(Tail(q))
Waited(i) == SumSeq(api.slept[i])

C8_AtMostThreeRequests ==
    /\ api.requests <= MAX_RETRIES
    /\ Len(api.hist) = api.requests
    /\ api.requests = MAX_RETRIES => Ended
    /\ api.status = "running" => api.attempt < MAX_RETRIES

\* C8 witness: a call that received a rate-limit response or an unexpected
\* status on each of its 3 attempts has ended.
C8_Witness ==
    /\ api.requests = MAX_RETRIES
    /\ AllKinds({"ratelimit", "forbidden", "server_error"})
    /\ \E i \in 1..Len(api.hist) : api.hist[i].kind = "ratelimit"
    /\ \E i \in 1..Len(api.hist) : api.hist[i].kind = "server_error"
    /\ Ended

\* The 3 attempts have been made and each ended with a connection error, a
\* timeout, a 5xx or a 403 without rate limit.
AllAttemptsFailed ==
    /\ Len(api.hist) = MAX_RETRIES
    /\ AllKinds({"connerr", "timeout", "server_error", "forbidden"})

C10_NotFoundReturnsEmpty ==
    \A i \in 1..Len(api.hist) :
        api.hist[i].kind = "notfound"
           => /\ i = Len(api.hist)
              /\ api.requests = i
              /\ api.status = "returned"
              /\ api.result = Empty(api.fn)
              /\ api.slept[i] = <<>>

\* C10 witness: a 404 on the second attempt, after a connection error.
C10_Witness ==
    /\ Len(api.hist) = 2
    /\ api.hist[1].kind = "connerr"
    /\ api.hist[2].kind = "notfound"
    /\ api.status = "returned"

\* The i-th response was a transient network error: a timeout or a
\* connection error.
Transient(i) == api.hist[i].kind \in {"timeout", "connerr"}

\* An attempt is used up by every response handled while the call goes on.
AttemptPerResponse == api.status = "running" => api.attempt = Len(api.hist)

\* C11 as stated: in the three functions a timeout or connection error uses
\* up one attempt, and the fixed delay of 5 is slept after a connection error
\* and never after a timeout.
C11_DelayOnlyAfterConnectionError ==
    /\ AttemptPerResponse
    /\ \A i \in 1..Len(api.hist) :
          Transient(i)
             => api.slept[i] = IF api.hist[i].kind = "connerr"
                               THEN <<RETRY_DELAY>> ELSE <<>>

\* C11 amended: a timeout or connection error uses up one attempt; get_user_id
\* sleeps the fixed delay of 5 after every connection error and never after a
\* timeout, while get_open_issues and get_closed_issues sleep it after a
\* timeout as well as after a connection error when the error came on the
\* first or second attempt, and raise without sleeping when it came on the
\* third.
C11_DelayAfterCaughtError ==
    /\ AttemptPerResponse
    /\ \A i \in 1..Len(api.hist) :
          Transient(i)
             => /\ i <= MAX_RETRIES
                /\ IF api.fn = "get_user_id"
                   THEN api.slept[i] = IF api.hist[i].kind = "connerr"
                                       THEN <<RETRY_DELAY>> ELSE <<>>
                   ELSE api.slept[i] = IF i < MAX_RETRIES
                                       THEN <<RETRY_DELAY>> ELSE <<>>
                /\ (i = Len(api.hist) /\ i < MAX_RETRIES) => api.status = "running"

\* C11 witness: get_open_issues slept the fixed delay after a timeout on its
\* first attempt and went on to a second request.
C11_Witness ==
    /\ api.fn = "get_open_issues"
    /\ Len(api.hist) >= 2
    /\ api.hist[1].kind = "timeout"
    /\ api.slept[1] = <<RETRY_DELAY>>

\* C12: the wait after a rate-limited response is max(reset - now, 0): no
\* negative duration is ever passed to time.sleep, and when the reset time is
\* not in the future nothing positive is slept and the request is retried
\* (while attempts remain).
C12_RateLimitWaitClamped ==
    \A i \in 1..Len(api.hist) :
        /\ \A j \in 1..Len(api.slept[i]) : api.slept[i][j] >= 0
        /\ api.hist[i].kind = "ratelimit"
              => /\ Waited(i) = Max(api.hist[i].reset - api.hist[i].now, 0)
                 /\ api.hist[i].reset <= api.hist[i].now
                       => /\ \A j \in 1..Len(api.slept[i]) : api.slept[i][j] = 0
                          /\ (i = Len(api.hist) /\ i < MAX_RETRIES)
                                => api.status = "running"

\* C12 witness: a rate-limited response whose reset time had already passed
\* was followed by a second request, and nothing positive was slept between.
C12_Witness ==
    /\ Len(api.hist) >= 2
    /\ api.hist[1].kind = "ratelimit"
    /\ api.hist[1].reset < api.hist[1].now
    /\ Waited(1) = 0

---------------------------------------------------------------------------
(* Properties of validate and _validate_title *)

Returned == val.status = "returned"
\* The title of the validate call, and what _validate_title makes of it
ValTitle == Join(val.forms, val.scheme)
ValTitleResult == _validate_title(ValTitle, val.accepts)
Did(step) == step \in SeqSet(val.did)
Count(q, x) == Cardinality({i \in 1..Len(q) : q[i] = x})
\* The steps of validate that follow the title and body checks
LaterSteps ==
    {"makedirs", "write_temp", "validator", "make_gui(meta)", "make_gui(cits)",
     "merge_html_files", "copy(meta_report)", "copy(cits_report)", "add_report",
     "cleanup"}
\* The validator found errors in the metadata, in the citations
MetaErrors == val.outcome \in {"meta", "both"}
CitsErrors == val.outcome \in {"cits", "both"}

\* C13: validate checks, in this order, the format of the title, its scheme,
\* its identifier, that the body is not empty, that it holds the separator,
\* and then runs the validator; it returns the verdict of the first check
\* that fails, with one message, and makes no later step: the identifier
\* service is not asked about a title it rejects on format or scheme, and no
\* temporary file, validator run or registration follows a rejection on the
\* title, the empty body or the separator.
C13_FirstFailureWins ==
    Returned =>
        /\ ~val.valid => val.msg.kind # ""
        /\ IF ~Search(ValTitle).found
           THEN ~val.valid /\ val.msg = MalformedTitle /\ val.did = <<>>
           ELSE IF Lower(Search(ValTitle).scheme) \notin manager_map
           THEN /\ ~val.valid
                /\ val.msg = UnsupportedSchema(Lower(Search(ValTitle).scheme))
                /\ val.did = <<>>
           ELSE IF ~val.accepts
           THEN /\ ~val.valid
                /\ val.msg.kind = "identifier is not a valid"
                /\ val.did = <<"is_valid">>
           ELSE IF Falsy(val.body)
           THEN ~val.valid /\ val.msg = EmptyBody /\ val.did = <<"is_valid">>
           ELSE IF ~HasSeparator(val.body)
           THEN ~val.valid /\ val.msg = MissingSeparator /\ val.did = <<"is_valid">>
           ELSE IF val.outcome = "raises"
           THEN /\ ~val.valid
                /\ val.msg = ErrorValidating("validator")
                /\ val.did = <<"is_valid", "makedirs", "write_temp", "validator",
                               "cleanup">>
           ELSE SubSeq(val.did, 1, 4) =
                    <<"is_valid", "makedirs", "write_temp", "validator">>
        /\ (\A i \in 1..Len(val.did) : val.did[i] \notin LaterSteps)
              => ~val.written /\ ~val.registered

\* C13 witness: a title without the keyword came with a body without
\* separator, and the answer is the one about the title, nothing else done.
C13_Witness ==
    /\ Returned
    /\ ~Search(ValTitle).found
    /\ ~Falsy(val.body) /\ ~HasSeparator(val.body)
    /\ val.msg = MalformedTitle
    /\ val.did = <<>>

\* C14 as stated: a body without the separator (None and "" included) gets
\* valid = False and the 'Please use the separator' message, whatever the
\* title.
C14_SeparatorMessageAlways ==
    (Returned /\ ~HasSeparator(val.body))
       => ~val.valid /\ val.msg = MissingSeparator

\* C14 amended: a body without the separator gets valid = False; the message
\* is the one of the title when the title is rejected, the 'issue body cannot
\* be empty' message when the title is accepted and the body is None or "",
\* and the 'Please use the separator' message when the title is accepted and
\* the body is not empty.
C14_SeparatorMessageAfterTitle ==
    (Returned /\ ~HasSeparator(val.body))
       => /\ ~val.valid
          /\ val.msg = IF ~ValTitleResult.valid THEN ValTitleResult.msg
                       ELSE IF Falsy(val.body) THEN EmptyBody
                       ELSE MissingSeparator

\* C14 witness: an accepted title, a body of CSV text without separator, and
\* the separator message.
C14_Witness ==
    /\ Returned
    /\ ValTitleResult.valid
    /\ val.body = Body(<<"csv", " ", "csv">>)
    /\ ~val.valid
    /\ val.msg = MissingSeparator

\* The schemes the specification lists as supported
SupportedSchemes ==
    {"doi", "isbn", "pmid", "pmcid", "url", "wikidata", "wikipedia", "openalex",
     "temp", "local"}

\* C15: for every scheme of the supported set, a title
\* "deposit <domain> <scheme>:<value>" whose identifier the identifier
\* service accepts gets (True, "").
C15_SupportedSchemesAccepted ==
    (/\ tv.status = "returned"
     /\ tv.forms \in {<<"deposit", "domain", "id">>, <<"deposit", "hostport", "id">>}
     /\ tv.scheme \in SupportedSchemes
     /\ tv.accepts)
       => tv.valid /\ tv.msg = NoMessage

\* The title has no "deposit" word; it has no colon; its words are "deposit"
\* and "<scheme>:<value>" with nothing but whitespace between them.
LacksKeyword == \A i \in 1..Len(tv.forms) : tv.forms[i] # "deposit"
LacksSuffix ==
    \A i \in 1..Len(tv.forms) : tv.forms[i] \in {"deposit", "empty", "domain", "nocolon"}
LacksDomain == SelectSeq(tv.forms, LAMBDA w : w # "empty") = <<"deposit", "id">>

\* C16: a title without the deposit keyword, without the domain or without a
\* scheme:value suffix gets the 'title of the issue was not structured
\* correctly' message, and the identifier service is not asked.
C16_MalformedTitleRejected ==
    (tv.status = "returned" /\ (LacksKeyword \/ LacksDomain \/ LacksSuffix))
       => ~tv.valid /\ tv.msg = MalformedTitle /\ ~tv.consulted

\* C17: a body in which the separator occurs two or more times never gets
\* valid = True.
C17_TwoSeparatorsRejected ==
    (Returned /\ Count(val.body.text, Separator) >= 2) => ~val.valid

\* The call failed on the format of its input: the title is rejected, the
\* body is None, empty or without separator, or the validator raised.
InputFormatFailure ==
    \/ ~ValTitleResult.valid
    \/ ~HasSeparator(val.body)
    \/ val.outcome = "raises" /\ Did("validator")

\* C18: validate returns a pair and never raises, whatever the title and the
\* body, the validator raising included; when the input fails on its format
\* the pair is (False, a non-empty message).
C18_NeverRaises ==
    Returned =>
        /\ ~val.raised
        /\ val.msg.kind # ""
        /\ InputFormatFailure => ~val.valid
        /\ Did("makedirs") => val.did[Len(val.did)] = "cleanup"

\* C18 witness: the validator raised on a body whose sections are empty, and
\* validate returned the 'Error validating data' verdict.
C18_Witness ==
    /\ Returned
    /\ val.body = Body(<<Separator>>)
    /\ val.outcome = "raises"
    /\ ~val.raised
    /\ ~val.valid
    /\ val.msg = ErrorValidating("validator")

\* C19: add_report is called, once, with validation_issue_<number>.html and
\* its URL, exactly when the validator reports errors in the metadata or the
\* citations; the verdict is then invalid and its message names the parts
\* with errors; nothing is registered otherwise.
C19_RegistersOnErrors ==
    Returned =>
        /\ val.registered <=> (Did("validator") /\ (MetaErrors \/ CitsErrors))
        /\ Count(val.did, "add_report") = IF val.registered THEN 1 ELSE 0
        /\ val.registered
              => /\ last.op = "add_report"
                 /\ last.name = ReportFilename(val.issue_number)
                 /\ last.url = ReportUrl(ReportFilename(val.issue_number))
                 /\ ~val.valid
                 /\ val.msg = ValidationErrors(
                       (IF MetaErrors THEN <<"metadata">> ELSE <<>>)
                          \o (IF CitsErrors THEN <<"citations">> ELSE <<>>),
                       ReportFilename(val.issue_number))

\* C20: when the registration of the report triggers a migration that fails,
\* validate raises; the failure is not made a verdict message.
C20_ArchiveFailureRaises ==
    (Returned /\ val.registered /\ val.triggered /\ val.archive_raised)
       => val.raised /\ val.msg = NoMessage

---------------------------------------------------------------------------
(* Properties of answer *)

\* The requests answer has sent, in order
Writes == SelectSeq(log, LAMBDA e : e.op \in {"POST labels", "POST comments", "PATCH closed"})
WriteOps == [k \in 1..Len(Writes) |-> Writes[k].op]
AnswerOrder == <<"POST labels", "POST comments", "PATCH closed">>

\* C29: answer sends its requests in the order label, comment, close; when
\* one of them fails answer raises at once and sends no later request, and
\* answer returns only when the three were sent and none failed.
C29_WritesInOrder ==
    (ans.status # "none" /\ run.status = "idle") =>
        /\ WriteOps = SubSeq(AnswerOrder, 1, Len(Writes))
        /\ \A k \in 1..Len(Writes) : ~Writes[k].ok => k = Len(Writes)
        /\ ans.status = "raised" <=> (Writes # <<>> /\ ~Writes[Len(Writes)].ok)
        /\ ans.status = "returned" <=> (Len(Writes) = 3 /\ Writes[3].ok)

\* C29 witness: the label was added, the comment request failed, answer
\* raised and the issue was not closed.
C29_Witness ==
    /\ run.status = "idle"
    /\ ans.status = "raised"
    /\ Len(Writes) = 2
    /\ Writes[1].ok /\ ~Writes[2].ok
    /\ WriteOps = <<"POST labels", "POST comments">>

\* C30: answer adds one label, fixed by its arguments: "rejected" when
\* is_authorized is False whatever is_valid, else "invalid" when is_valid is
\* False, else "to be processed".
C30_LabelFromArguments ==
    (ans.status # "none" /\ run.status = "idle") =>
        /\ Cardinality({k \in 1..Len(Writes) : Writes[k].op = "POST labels"})
              = (IF ans.status = "label" THEN 0 ELSE 1)
        /\ \A k \in 1..Len(Writes) :
              Writes[k].op = "POST labels" =>
                 Writes[k].label =
                    CASE ~ans.is_authorized -> "rejected"
                      [] ans.is_authorized /\ ~ans.is_valid -> "invalid"
                      [] ans.is_authorized /\ ans.is_valid -> "to be processed"

\* C30 witness: answer was called with is_valid True and is_authorized
\* False, and the label it added is "rejected".
C30_Witness ==
    /\ run.status = "idle"
    /\ ans.status = "returned"
    /\ ans.is_valid /\ ~ans.is_authorized
    /\ Writes[1].op = "POST labels" /\ Writes[1].label = "rejected" /\ Writes[1].ok

---------------------------------------------------------------------------
(* Properties of process_open_issues *)

Fetched == 1..Len(run.issues)
\* What the run did for issue n, in order
EventsOf(n) == SelectSeq(log, LAMBDA e : e.issue = n)
OpsOf(n) == [k \in 1..Len(EventsOf(n)) |-> EventsOf(n)[k].op]
CountOf(n, op) == Cardinality({k \in 1..Len(EventsOf(n)) : EventsOf(n)[k].op = op})
IsPrefix(p, q) == Len(p) <= Len(q) /\ p = SubSeq(q, 1, Len(p))
\* The answer call made for issue n (NoAnswerEvent when none was made)
NoAnswerEvent == Event("none", 0)
AnswerOf(n) ==
    IF CountOf(n, "answer") = 0 THEN NoAnswerEvent
    ELSE EventsOf(n)[CHOOSE k \in 1..Len(EventsOf(n)) : EventsOf(n)[k].op = "answer"]
\* The three requests of answer
Posting == <<"answer", "POST labels", "POST comments", "PATCH closed">>
\* What is done for an issue whose author is not on the safe list, for an
\* issue found invalid and for an issue found valid
StepsUnauthorized == <<"get_user_id">> \o Posting
StepsInvalid == <<"get_user_id", "is_in_safe_list", "validate">> \o Posting
StepsValid == StepsInvalid \o <<"get_data_to_store">>
StepsFor(n) ==
    IF ~is_in_safe_list(run.issues[n].user) THEN StepsUnauthorized
    ELSE IF AnswerOf(n).is_valid THEN StepsValid
    ELSE StepsInvalid
\* Everything was done for issue n, and every request of its answer succeeded
Handled(n) ==
    /\ OpsOf(n) = StepsFor(n)
    /\ \A k \in 1..Len(EventsOf(n)) :
          EventsOf(n)[k].op \in {"POST labels", "POST comments", "PATCH closed"}
             => EventsOf(n)[k].ok
\* The issues whose data was collected, in the order of collection
Collected ==
    LET got == SelectSeq(log, LAMBDA e : e.op = "get_data_to_store" /\ e.ok)
    IN [k \in 1..Len(got) |-> got[k].issue]
Deposits == SelectSeq(log, LAMBDA e : e.op = "deposit_on_zenodo")
Increasing(q) == \A j, k \in 1..Len(q) : j < k => q[j] < q[k]

\* C21: for an issue whose author is not on the safe list the run calls
\* answer once, with is_valid False, is_authorized False and the 'contact
\* OpenCitations' message, does not call validate and collects nothing.
C21_UnauthorizedRejected ==
    \A n \in Fetched :
       ~is_in_safe_list(run.issues[n].user) =>
          /\ IsPrefix(OpsOf(n), StepsUnauthorized)
          /\ CountOf(n, "validate") = 0
          /\ CountOf(n, "answer") <= 1
          /\ CountOf(n, "answer") = 1 =>
                /\ ~AnswerOf(n).is_valid
                /\ ~AnswerOf(n).is_authorized
                /\ AnswerOf(n).message = ContactOpenCitations
          /\ \A k \in 1..Len(run.data_to_store) :
                run.data_to_store[k].hadPrimarySource # n
          /\ (run.status = "done" \/ run.i > n) => CountOf(n, "answer") = 1

\* C21 witness: the run is over; the first issue, of an author who is not on
\* the safe list, was answered and closed, the second was validated and its
\* data collected.
C21_Witness ==
    /\ run.status = "done"
    /\ Len(run.issues) = 2
    /\ run.issues[1].user = "other"
    /\ OpsOf(1) = StepsUnauthorized
    /\ OpsOf(2) = StepsValid
    /\ Collected = <<2>>

\* C22: the issues are handled one at a time in the order of the list: what
\* is done for an issue follows the fixed order user, safe list, validation,
\* answer, collection, nothing is done for an issue before everything is
\* done for the issues before it, and when the run ends without raising
\* each issue was answered exactly once, whatever its verdict.
C22_OneIssueAtATime ==
    /\ \A j, k \in 1..Len(log) :
          (j < k /\ log[j].issue # 0 /\ log[k].issue # 0) => log[j].issue <= log[k].issue
    /\ \A n \in Fetched :
          /\ IsPrefix(OpsOf(n), StepsFor(n))
          /\ CountOf(n, "answer") <= 1
          /\ (n > 1 /\ EventsOf(n) # <<>>) => Handled(n - 1)
    /\ run.status = "done" =>
          \A n \in Fetched : Handled(n) /\ CountOf(n, "answer") = 1

\* C22 witness: a run of two issues ended; the first was found invalid, the
\* second valid, and both were answered.
C22_Witness ==
    /\ run.status = "done"
    /\ Len(run.issues) = 2
    /\ OpsOf(1) = StepsInvalid /\ ~AnswerOf(1).is_valid
    /\ OpsOf(2) = StepsValid /\ AnswerOf(2).is_valid

\* C23: deposit_on_zenodo is called at most once, after every issue was
\* answered, with the data of the issues collected, in the order of the
\* list; it is not called when nothing was collected.
C23_SingleDepositAfterAll ==
    /\ Len(Deposits) <= 1
    /\ Increasing(Collected)
    /\ \A k \in 1..Len(log) :
          log[k].op = "deposit_on_zenodo" =>
             /\ k = Len(log)
             /\ \A n \in Fetched : Handled(n)
             /\ log[k].data # <<>>
             /\ [j \in 1..Len(log[k].data) |-> log[k].data[j].hadPrimarySource] = Collected
             /\ \A j \in 1..Len(log[k].data) :
                   LET n == log[k].data[j].hadPrimarySource
                   IN /\ AnswerOf(n).is_valid
                      /\ log[k].data[j].title = run.issues[n].title
                      /\ log[k].data[j].wasAttributedTo = run.issues[n].user
    /\ run.status = "done" => (Len(Deposits) = 1 <=> Collected # <<>>)

\* C23 witness: two valid issues were collected and deposited together.
C23_Witness ==
    /\ run.status = "done"
    /\ Len(Deposits) = 1
    /\ Deposits[1].ok
    /\ Collected = <<1, 2>>

\* C24: when deposit_on_zenodo fails the run raises; nothing is written to
\* the issue tracker after the failure, and the answers posted before it
\* stay as they were.
C24_DepositFailureRaises ==
    \A k \in 1..Len(log) :
       (log[k].op = "deposit_on_zenodo" /\ ~log[k].ok) =>
          /\ run.status = "raised"
          /\ k = Len(log)
          /\ \A n \in Fetched : Handled(n)

\* C24 witness: the deposit failed after an issue was answered as valid and
\* closed.
C24_Witness ==
    /\ run.status = "raised"
    /\ Len(Deposits) = 1
    /\ ~Deposits[1].ok
    /\ Handled(1)
    /\ AnswerOf(1).is_valid

\* The issues the run labelled "to be processed", and the issues whose data
\* is in an aggregate passed to deposit_on_zenodo
LabelledValid ==
    {e.issue : e \in {x \in SeqSet(log) : /\ x.op = "POST labels"
                                          /\ x.ok
                                          /\ x.label = "to be processed"}}
DepositedIssues ==
    UNION {{e.data[k].hadPrimarySource : k \in 1..Len(e.data)} : e \in SeqSet(Deposits)}

\* C33: when the run has ended, every issue it labelled "to be processed" has
\* its data in the aggregate the run passed to deposit_on_zenodo.
C33_ValidDataDeposited ==
    run.status \in {"done", "raised"} => LabelledValid \subseteq DepositedIssues

\* C34: an issue whose author is on the safe list is never labelled
\* "rejected", whatever get_user_id receives.
C34_TrustedNeverRejected ==
    \A e \in SeqSet(log) :
        /\ e.op = "POST labels"
        /\ is_in_safe_list(run.issues[e.issue].user)
        => e.label # "rejected"

---------------------------------------------------------------------------
(* Properties of store_meta_input *)

Dirs == {"metadata", "citations"}
\* The files written in a directory, in the order they were written
WritesOf(dir) == SelectSeq(meta.writes, LAMBDA w : w.dir = dir)
\* The records of a sequence of files, one file after the other
RECURSIVE Contents(_)
Contents(ws) ==
    IF ws = <<>> THEN <<>>
    ELSE Extend(Contents(SubSeq(ws, 1, Len(ws) - 1)), ws[Len(ws)].records)
\* An issue is accepted when its body splits in two sections that both hold
\* rows
Accepted(issue) ==
    /\ issue.body = "str"
    /\ Len(issue.sections) = 2
    /\ \A k \in 1..2 : issue.sections[k].text = "csv" /\ issue.sections[k].rows >= 1
SectionOf(dir) == IF dir = "metadata" THEN 1 ELSE 2
\* The records of the accepted issues among the first k, in issue order and
\* row order
RECURSIVE Given(_, _)
Given(dir, k) ==
    IF k = 0 THEN <<>>
    ELSE IF Accepted(meta.issues[k])
    THEN Extend(Given(dir, k - 1), <<Run(k, 1, meta.issues[k].sections[SectionOf(dir)].rows)>>)
    ELSE Given(dir, k - 1)
AllGiven(dir) == Given(dir, Len(meta.issues))
\* The issues whose rows are in a list of records
IssuesIn(q) == {q[k].issue : k \in 1..Len(q)}

\* C25: a store_meta_input call that accepted n records of one kind and
\* returned has written ceil(n / 1000) files of that kind, named 0, 1, ... in
\* the order of writing, each once; every file but the last holds 1000
\* records and the last holds 1 to 1000; nothing is written when n = 0.
\* While the call runs, the files written so far are 0, 1, ... and hold 1000
\* records each.
C25_FilesOfThousand ==
    \A dir \in Dirs :
       LET ws == WritesOf(dir)
           n == Length(AllGiven(dir))
       IN /\ \A k \in 1..Len(ws) : ws[k].name = k - 1
          /\ meta.status = "loop" => \A k \in 1..Len(ws) : Length(ws[k].records) = FileSize
          /\ meta.status = "returned" =>
                /\ Len(ws) = (n + FileSize - 1) \div FileSize
                /\ \A k \in 1..(Len(ws) - 1) : Length(ws[k].records) = FileSize
                /\ ws # <<>> => Length(ws[Len(ws)].records) \in 1..FileSize

\* C25 witness: 2001 metadata records came in, and the files 0, 1 and 2 hold
\* 1000, 1000 and 1 of them; the 1000 citations are in one file.
C25_Witness ==
    /\ meta.status = "returned"
    /\ Length(AllGiven("metadata")) = 2 * FileSize + 1
    /\ [k \in 1..Len(WritesOf("metadata")) |-> Length(WritesOf("metadata")[k].records)]
          = <<FileSize, FileSize, 1>>
    /\ Length(AllGiven("citations")) = FileSize
    /\ Len(WritesOf("citations")) = 1

\* C26: when store_meta_input returns, the files of one kind, read in the
\* order of their names, hold the records of the accepted issues in issue
\* order and row order: none is missing, none is there twice, none is out of
\* place.
C26_FilesHoldTheRecords ==
    meta.status = "returned" =>
       \A dir \in Dirs : Contents(WritesOf(dir)) = AllGiven(dir)

\* C26 witness: two accepted issues of 999 and 1001 metadata rows; file 0
\* holds the rows of the first and the first row of the second, file 1 the
\* other 1000 rows of the second.
C26_Witness ==
    /\ meta.status = "returned"
    /\ Len(meta.issues) = 2
    /\ WritesOf("metadata") =
          <<[dir |-> "metadata", name |-> 0,
             records |-> <<Run(1, 1, FileSize - 1), Run(2, 1, 1)>>],
            [dir |-> "metadata", name |-> 1,
             records |-> <<Run(2, 2, FileSize + 1)>>]>>

\* C27: an issue that is not accepted gives no record to the lists and the
\* files, does not make store_meta_input raise, and does not keep the issues
\* after it from being stored.
C27_MalformedIssueSkipped ==
    /\ meta.status # "raised"
    /\ \A k \in 1..Len(meta.issues) :
          ~Accepted(meta.issues[k]) =>
             /\ k \notin IssuesIn(meta.metadata_to_store) \cup IssuesIn(meta.citations_to_store)
             /\ \A j \in 1..Len(meta.writes) : k \notin IssuesIn(meta.writes[j].records)
    /\ meta.status = "returned" =>
          \A k \in 1..Len(meta.issues) :
             Accepted(meta.issues[k]) =>
                \A dir \in Dirs : k \in IssuesIn(Contents(WritesOf(dir)))

---------------------------------------------------------------------------
(* Properties of two processes on one index file *)

\* The entries a process registered that the index file no longer holds, in
\* either tier
LostEntries ==
    {n \in conc.registered :
        n \notin KeySet(conc.file.github_reports) \cup KeySet(conc.file.zenodo_reports)}
\* The reports both processes uploaded
UploadedTwice ==
    {r \in Reports : \A p \in Processes : [by |-> p, report |-> r] \in conc.uploads}

\* C28: nothing makes a process wait for the other: whatever the other
\* process is doing, a process that has not finished can take its next
\* step. An entry is lost, or a report is uploaded by both processes, only
\* in a behaviour in which the two calls overlapped.
C28_NoLockAndSerialIsSafe ==
    conc.status = "running" =>
        /\ \A p \in Processes : Proc(p).pc # "done" => ENABLED ConcStep(p)
        /\ (LostEntries # {} \/ UploadedTwice # {}) => conc.overlapped

\* C28 witness: the two calls overlapped; the entry registered by one
\* process is gone from the index file, and the same hot report was uploaded
\* by both processes, each in a deposition that was published.
C28_Witness ==
    /\ conc.status = "running"
    /\ LostEntries # {}
    /\ UploadedTwice # {}
    /\ conc.published = Processes

---------------------------------------------------------------------------
(* Properties of the migration *)

\* C35: when add_report has returned normally, github_reports holds fewer
\* than max_reports_before_archive entries.
C35_HotBelowThreshold ==
    last.op = "add_report" /\ ~last.raised
    => Len(index.github_reports) < max_reports_before_archive

Uploaded(requests) == {requests[i].name : i \in {j \in 1..Len(requests) : requests[j].req = "upload"}}

\* C36: when archive_reports has published a deposition and returned its
\* DOI, a report file was uploaded into it and an entry has moved from
\* github_reports to zenodo_reports.
C36_PublishesWhatItUploaded ==
    [][/\ ArchiveCalled("archive_reports") \/ ArchiveCalled("add_report")
       /\ last'.published
       => /\ Uploaded(last'.requests) # {}
          /\ \E n \in LoadedHot : n \notin Hot' /\ n \in Cold']_vars

C38_FailedMigrationRetried ==
    last.op = "add_report"
    => /\ last.triggered /\ last.fail > 0
          => /\ last.raised
             /\ DictHas(index.github_reports, last.name)
             /\ DictGet(index.github_reports, last.name) = GithubUrl(last.url)
             /\ NeedsArchive(index)
       /\ last.after_failure
          => /\ last.triggered
             /\ last.requests # <<>>
             /\ last.requests[1].req = "create"

\* C38 witness: the add_report call after a failed migration has triggered
\* the migration again, and this time it succeeded.
C38_Witness ==
    /\ last.op = "add_report"
    /\ last.after_failure
    /\ last.triggered
    /\ last.published

---------------------------------------------------------------------------
(* Properties of check_and_archive_reports *)

\* C31: check_and_archive_reports starts a migration exactly when the hot set
\* has reached max_reports_before_archive; below the threshold (the empty
\* index included) it makes no request, changes nothing and returns.
C31_ArchivesAtThreshold ==
    [][ArchiveCalled("check_and_archive_reports")
       => /\ last'.triggered <=> NeedsArchive(index)
          /\ ~NeedsArchive(index)
                => /\ ~last'.raised
                   /\ last'.requests = <<>>
                   /\ index' = index
                   /\ files' = files]_vars

---------------------------------------------------------------------------
(* Properties of process_meta_issues *)

MetaEvents(op) == SelectSeq(mrun.log, LAMBDA e : e.op = op)
\* The store_meta_input call made for the issue of number n
StoredFor(n) == CHOOSE e \in SeqSet(MetaEvents("store_meta_input")) : e.issue = n
\* The body of the issue is a string without the separator.
LacksSentinel(issue) == issue.body = "str" /\ Len(issue.sections) = 1

\* C32: process_single_issue returns False and writes no file for an issue
\* whose body lacks the separator. (It returns what the run_meta_process
\* event records: True when run_meta_process returned, False when it raised.)
C32_NoSentinelReturnsFalse ==
    \A e \in SeqSet(MetaEvents("run_meta_process")) :
        LacksSentinel(mrun.issues[e.issue])
        => /\ ~e.ok
           /\ StoredFor(e.issue).writes = <<>>

\* C39: when run_meta_process is called for an issue, the metadata directory
\* holds exactly the files store_meta_input wrote from the records of that
\* issue.
C39_InputDirHoldsTheIssue ==
    \A e \in SeqSet(MetaEvents("run_meta_process")) :
        e.metadata_dir = WriteFiles(<<>>, StoredFor(e.issue).writes, "metadata")

\* C40: when update_issue_labels(issue_number, success) has returned, the
\* issue does not carry "to be processed" any more and carries "done"
\* (success) or "oc meta error" (failure).
C40_LabelsUpdated ==
    \A e \in SeqSet(MetaEvents("update_issue_labels")) :
        /\ "to be processed" \notin mrun.labels[e.issue]
        /\ new_label(e.ok) \in mrun.labels[e.issue]

====
